---- MODULE Spec2Model ----
(***************************************************************************)
(* Model of the OpenAPI import engine: the `$ref` resolver                 *)
(* (createOpenApiRefResolver / deepDeref / mergeObjects / getByPointer)    *)
(* and the tag -> path -> endpoint tree builder (openApiToNodes).          *)
(*                                                                         *)
(* JSON values.  Every JavaScript value is a record                        *)
(*     [t, s, id, kids]                                                    *)
(*   t    : "undef" | "null" | "str" | "num" | "bool" | "obj" | "arr"      *)
(*   s    : the text of a primitive, as a sequence of tokens.  A string is *)
(*          cut at the characters the code looks at: "#/a/b~1c" is         *)
(*          <<"#","/","a","/","b","~1","c">>; any other run of characters  *)
(*          is one token.                                                  *)
(*   id   : the identity of an object or an array (0 for a primitive).     *)
(*          Map keys of the resolver's cache and `new Set(...)` compare    *)
(*          objects by identity, so two objects with the same content and  *)
(*          different ids are different objects.                           *)
(*   kids : the own properties in insertion order, <<[k, x], ...>>; for an *)
(*          array the elements (k = <<>>).  A property bound to undefined  *)
(*          is a kid whose x is Undef, as in JavaScript.                   *)
(* Keys that look like array indices (which JavaScript iterates first) and *)
(* properties inherited from Object.prototype are outside the model.       *)
(***************************************************************************)
EXTENDS Integers, Sequences, FiniteSets, TLC

VARIABLES
    doc,            \* the parsed OpenAPIDocument (closed over by the resolver)
    cache,          \* deepDeref: Map<object, any>, keyed by object identity
    refCache,       \* deepDeref: Map<string, any>, keyed by ref string
    resolvingStack, \* deepDeref: Set<string>
    nextId,         \* allocator of object identities
    calls,          \* the top-level deref calls made so far: <<[arg, res], ...>>
    tree,           \* what openApiToNodes returned (<<>> before it ran)
    built,          \* whether openApiToNodes has run
    ma, mb, mr, mdone, \* mergeObjects called directly: a, b, result, done
    content,        \* pickJsonishContent: the content map it is called with
    picked,         \* pickJsonishContent: <<>> before the call, <<result>> after
    schema,         \* sampleFromSchema: the schema it is called with
    samples,        \* sampleFromSchema: the calls so far, <<[now, v], ...>>
    panel,          \* synthesizeExampleFromSchema: the calls so far, <<[now, v], ...>>
    raw,            \* parseOpenAPI: the text it is called with
    parsed,         \* parseOpenAPI: <<>> before the call, <<outcome>> after
    chosen,         \* OpenAPIImportPanel: the selected endpoints, in tree order
    project,        \* OpenAPIImportPanel: whether activeProject is set
    activeSource,   \* OpenAPIImportPanel: the path of the spec file, "" when unknown
    fs,             \* the file system: [dirs, files]
    runs,           \* the handleGenerate invocations so far, finished ones included
    busy,           \* OpenAPIImportPanel state
    confirmOpen,    \* OpenAPIImportPanel state
    progress,       \* OpenAPIImportPanel state: [current, total]
    isSaved         \* OpenAPIImportPanel state

others == <<content, picked, schema, samples>>
export == <<chosen, project, activeSource, fs, runs, busy, confirmOpen, progress, isSaved>>
extra == <<panel, raw, parsed, export>>
vars == <<doc, cache, refCache, resolvingStack, nextId, calls, tree, built, ma, mb, mr, mdone,
          others, extra>>

----------------------------------------------------------------------------
(* Bounds *)

MaxCalls == 2

----------------------------------------------------------------------------
(* Values *)

Prim(t, s) == [t |-> t, s |-> s, id |-> 0, kids |-> <<>>]
Undef == Prim("undef", <<>>)
Null == Prim("null", <<>>)
Str(toks) == Prim("str", toks)
S(tok) == Prim("str", <<tok>>)
Num(tok) == Prim("num", <<tok>>)
True == Prim("bool", <<"true">>)
\* the outcome of a call that throws a TypeError
Thrown == Prim("throw", <<"TypeError">>)

P(k, x) == [k |-> <<k>>, x |-> x]
MkObj(id, kids) == [t |-> "obj", s |-> <<>>, id |-> id, kids |-> kids]
MkArr(id, elems) ==
    [t |-> "arr", s |-> <<>>, id |-> id,
     kids |-> [i \in 1..Len(elems) |-> [k |-> <<>>, x |-> elems[i]]]]
O(kids) == MkObj(0, kids)
A(elems) == MkArr(0, elems)

IsObject(v) == v.t = "obj"
IsArray(v) == v.t = "arr"
IsNullish(v) == v.t \in {"undef", "null"}
\* typeof v === "object" (true of null too)
TypeofObject(v) == v.t \in {"obj", "arr", "null"}

Elems(v) == [i \in 1..Len(v.kids) |-> v.kids[i].x]
Keys(v) == [i \in 1..Len(v.kids) |-> v.kids[i].k]
HasOwn(v, k) == \E i \in 1..Len(v.kids) : v.kids[i].k = k
IndexOfKey(v, k) == CHOOSE i \in 1..Len(v.kids) : v.kids[i].k = k

\* v[k] for a string k: the own property, or undefined
Get(v, k) ==
    IF v.t = "obj" /\ HasOwn(v, k) THEN v.kids[IndexOfKey(v, k)].x
    ELSE IF v.t = "arr" /\ Len(k) = 1 /\ k[1] \in {"0", "1", "2"}
         THEN LET i == CASE k[1] = "0" -> 1 [] k[1] = "1" -> 2 [] OTHER -> 3
              IN IF i <= Len(v.kids) THEN v.kids[i].x ELSE Undef
    ELSE Undef

\* out[k] = x on an object: an existing key keeps its place, a new one is appended
SetKey(v, k, x) ==
    IF HasOwn(v, k)
    THEN [v EXCEPT !.kids = [i \in 1..Len(v.kids) |->
                               IF v.kids[i].k = k THEN [k |-> k, x |-> x] ELSE v.kids[i]]]
    ELSE [v EXCEPT !.kids = Append(v.kids, [k |-> k, x |-> x])]

\* delete v[k]
DeleteKey(v, k) ==
    [v EXCEPT !.kids = SelectSeq(v.kids, LAMBDA kv : kv.k # k)]

\* const x = ...: the value computed once, then used by F
Const(x, F(_)) == CHOOSE y \in {F(c) : c \in {x}} : TRUE

\* Give every object and array of a literal (written with id 0) its own
\* identity, numbered in preorder from n: [v, n] is the value and the next
\* free id.
RECURSIVE Number(_, _)
RECURSIVE NumberKids(_, _, _, _)
NumberKids(kids, i, n, acc) ==
    IF i > Len(kids) THEN [kids |-> acc, n |-> n]
    ELSE Const(Number(kids[i].x, n), LAMBDA r :
         Const(Append(acc, [k |-> kids[i].k, x |-> r.v]), LAMBDA more :
             NumberKids(kids, i + 1, r.n, more)))
Number(v, n) ==
    IF v.t \notin {"obj", "arr"} THEN [v |-> v, n |-> n]
    ELSE Const(NumberKids(v.kids, 1, n + 1, <<>>), LAMBDA r :
             [v |-> [v EXCEPT !.id = n, !.kids = r.kids], n |-> r.n])

\* The value with every identity forgotten and every property bound to
\* undefined dropped: what a deep structural comparison (or JSON.stringify)
\* of two values looks at.
RECURSIVE Erase(_)
Erase(v) ==
    IF v.t \notin {"obj", "arr"} THEN v
    ELSE LET keep == IF v.t = "obj" THEN SelectSeq(v.kids, LAMBDA kv : kv.x.t # "undef")
                     ELSE v.kids
         IN [v EXCEPT !.id = 0,
                      !.kids = [i \in 1..Len(keep) |-> [k |-> keep[i].k, x |-> Erase(keep[i].x)]]]

\* Every object and array inside v, v included
RECURSIVE Nodes(_)
Nodes(v) ==
    IF v.t \notin {"obj", "arr"} THEN {}
    ELSE {v} \cup UNION {Nodes(v.kids[i].x) : i \in 1..Len(v.kids)}

----------------------------------------------------------------------------
(* getByPointer *)

\* pointer.slice(2).split("/"): the tokens from position i on, cut at "/"
RECURSIVE SplitSlash(_, _, _, _)
SplitSlash(toks, i, cur, acc) ==
    IF i > Len(toks) THEN Append(acc, cur)
    ELSE IF toks[i] = "/" THEN SplitSlash(toks, i + 1, <<>>, Append(acc, cur))
    ELSE SplitSlash(toks, i + 1, Append(cur, toks[i]), acc)

\* p.replace(/~1/g, "/").replace(/~0/g, "~")
Unescape(seg) ==
    [i \in 1..Len(seg) |->
        IF seg[i] = "~1" THEN "/" ELSE IF seg[i] = "~0" THEN "~" ELSE seg[i]]

RECURSIVE Walk(_, _, _)
Walk(cur, parts, i) ==
    IF i > Len(parts) THEN cur
    ELSE IF IsNullish(cur) \/ ~TypeofObject(cur) THEN Undef
    ELSE Walk(Get(cur, parts[i]), parts, i + 1)

getByPointer(root, pointer) ==
    IF ~(Len(pointer) >= 2 /\ pointer[1] = "#" /\ pointer[2] = "/") THEN Undef
    ELSE LET split == SplitSlash(pointer, 3, <<>>, <<>>)
             parts == [i \in 1..Len(split) |-> Unescape(split[i])]
         IN Walk(root, parts, 1)

----------------------------------------------------------------------------
(* mergeObjects.  The third argument is the next free identity; the result *)
(* is [v, n]: the merged value and the next free identity after the        *)
(* objects and arrays the merge allocated.                                 *)

\* Equality of two Set elements: primitives by value, objects by identity
SameValueZero(x, y) ==
    IF x.t \in {"obj", "arr"} \/ y.t \in {"obj", "arr"} THEN x.t = y.t /\ x.id = y.id
    ELSE x = y

\* Array.from(new Set(xs)): first occurrences, in order
RECURSIVE SetOrder(_, _, _)
SetOrder(xs, i, acc) ==
    IF i > Len(xs) THEN acc
    ELSE IF \E j \in 1..Len(acc) : SameValueZero(acc[j], xs[i])
         THEN SetOrder(xs, i + 1, acc)
         ELSE SetOrder(xs, i + 1, Append(acc, xs[i]))

\* Variant of UniqueUnion that concatenates without the Set
UniqueUnion_Concat(a, b, n) == MkArr(n, Elems(a) \o Elems(b))

\* Array.from(new Set([...a, ...b]))
UniqueUnion(a, b, n) == MkArr(n, SetOrder(Elems(a) \o Elems(b), 1, <<>>))

\* A value that is neither written nor newly allocated by the call that
\* returns it
Same(v, n) == [v |-> v, n |-> n, w |-> {}]

\* Variant of Copy that hands out the mapping itself
Copy_Alias(a, n) == a

\* { ...a }: a new mapping with the entries of a
Copy(a, n) == [a EXCEPT !.id = n]

\* mergeObjects returns [v, n, w]: the value, the next free identity and
\* the identities of the mappings it assigned a property to
RECURSIVE mergeObjects(_, _, _)
RECURSIVE MergeKeys(_, _, _, _, _)
\* for (const k of Object.keys(b)) { if (k === "allOf") continue; out[k] = mergeObjects(a[k], b[k]) }
MergeKeys(a, b, i, out, n) ==
    IF i > Len(b.kids) THEN Same(out, n)
    ELSE LET k == b.kids[i].k IN
         IF k = <<"allOf">> THEN MergeKeys(a, b, i + 1, out, n)
         ELSE Const(mergeObjects(Get(a, k), b.kids[i].x, n), LAMBDA r :
                  [MergeKeys(a, b, i + 1, SetKey(out, k, r.v), r.n)
                       EXCEPT !.w = @ \cup r.w \cup {out.id}])

\* Variant of mergeObjects in which `a` wins a primitive or type mismatch
mergeObjects_PrefersA(a, b, n) ==
    IF a.t = "undef" THEN Same(b, n)
    ELSE IF b.t = "undef" THEN Same(a, n)
    ELSE IF a.t = "null" THEN Same(b, n)
    ELSE IF b.t = "null" THEN Same(a, n)
    ELSE IF IsArray(a) /\ IsArray(b) THEN Same(UniqueUnion(a, b, n), n + 1)
    ELSE IF IsArray(a) \/ IsArray(b) \/ ~TypeofObject(a) \/ ~TypeofObject(b)
         THEN Same(a, n)
    ELSE MergeKeys(a, b, 1, Copy(a, n), n + 1)

mergeObjects(a, b, n) ==
    IF a.t = "undef" THEN Same(b, n)
    ELSE IF b.t = "undef" THEN Same(a, n)
    ELSE IF a.t = "null" THEN Same(b, n)
    ELSE IF b.t = "null" THEN Same(a, n)
    ELSE IF IsArray(a) /\ IsArray(b) THEN Same(UniqueUnion(a, b, n), n + 1)
    ELSE IF IsArray(a) \/ IsArray(b) \/ ~TypeofObject(a) \/ ~TypeofObject(b)
         THEN Same(b, n)
    ELSE MergeKeys(a, b, 1, Copy(a, n), n + 1)

----------------------------------------------------------------------------
(* createOpenApiRefResolver.  The resolver's state is threaded through the *)
(* recursion as st = [cache, refCache, stack, n, open]:                    *)
(*   cache  object identity -> memoized value     (cache)                  *)
(*   refCache  ref string -> resolved target      (refCache)               *)
(*   stack  ref strings being resolved            (resolvingStack)         *)
(*   n      the next free object identity                                  *)
(*   open   the objects whose `out` is in the cache and still being filled *)
(*   log    the trace of the resolution (see Event)                        *)
(*   written the identities of the mappings a property was assigned to or  *)
(*          deleted from                                                   *)
(* A cache hit on an object that is still being filled returns a reference *)
(* to the shared `out`, OpenRef(id); whoever reads through it (Force) sees *)
(* the properties assigned so far.                                         *)

EmptyMap == [x \in {} |-> Undef]
Put(m, k, v) == [x \in DOMAIN m \cup {k} |-> IF x = k THEN v ELSE m[x]]

OpenRef(id) == [t |-> "open", s |-> <<>>, id |-> id, kids |-> <<>>]
Force(st, v) == IF v.t = "open" THEN st.cache[v.id] ELSE v
IsOpen(st, v) == v.t = "open" /\ v.id \in st.open

RefKey == <<"$ref">>
AllOfKey == <<"allOf">>
CircularKey == <<"__circularRef__">>

\* typeof value.$ref === "string"
HasStringRef(value) == IsObject(value) /\ Get(value, RefKey).t = "str"

\* Variant of StripRef that copies the fragment and leaves its `$ref` in place
StripRef_KeepsRef(value, n) == [value EXCEPT !.id = n]

\* { ...value, $ref: undefined }
StripRef(value, n) == SetKey([value EXCEPT !.id = n], RefKey, Undef)

\* { ...value, __circularRef__: true }
Sentinel(value, n) == SetKey([value EXCEPT !.id = n], CircularKey, True)

\* parts.reduce((acc, cur) => mergeObjects(acc, cur), acc)
RECURSIVE ReduceMerge(_, _, _, _)
ReduceMerge(parts, i, acc, n) ==
    IF i > Len(parts) THEN Same(acc, n)
    ELSE Const(mergeObjects(acc, parts[i], n), LAMBDA r :
             [ReduceMerge(parts, i + 1, r.v, r.n) EXCEPT !.w = @ \cup r.w])

\* Variant of MemoRef that memoizes the resolved target instead of the merge
MemoRef_Target(st, value, merged) ==
    Put(st.cache, value.id, Force(st, st.refCache[Get(value, RefKey).s]))

\* cache.set(value, merged) after the merge of a `$ref` fragment
MemoRef(st, value, merged) == Put(st.cache, value.id, merged)

\* One entry of the trace of a resolution (st.log): a `$ref` fragment or an
\* `allOf` fragment was resolved.
\*   how    "cached" | "circular" | "first" for a `$ref` fragment, "allOf"
\*   frag   the fragment
\*   base   `$ref`: the resolved target merged under the siblings;
\*          allOf: the folded allOf branches
\*   local  allOf: the resolution of the fragment's other keys
\*   res    the value returned
\*   closes `$ref`: the pointer's target is a fragment whose own resolution
\*          is in progress further up the call chain
\*   partial `$ref`: base was read from an `out` that was still being filled
\*   at     the frame's view of resolvingStack (see Frame)
Event(how, frag, base, local, res, closes, partial, at) ==
    [how |-> how, frag |-> frag, base |-> base, local |-> local, res |-> res,
     closes |-> closes, partial |-> partial, at |-> at]

\* The ref strings of the `$ref` fragments among the values whose deepDeref
\* frames are on the call chain: the frames that passed resolvingStack.add
ChainRefs(root, chain) ==
    {Get(x, RefKey).s : x \in {y \in Nodes(root) : y.id \in chain /\ HasStringRef(y)}}

\* What one deepDeref frame sees of resolvingStack: its content when the
\* frame is entered and when it returns, next to the refs of the frames
\* above it on the call chain
Frame(root, st, chain, exit) ==
    [entry |-> st.stack, frames |-> ChainRefs(root, chain), exit |-> exit]

\* Variant of Leave that keeps the ref on the stack when the frame returns
Leave_KeepsRef(stack, ref) == stack

\* resolvingStack.delete(ref)
Leave(stack, ref) == stack \ {ref}

RECURSIVE deepDeref(_, _, _, _)
RECURSIVE MapDeref(_, _, _, _, _, _)
RECURSIVE DerefProps(_, _, _, _, _)

\* elems.map(deepDeref)
MapDeref(root, elems, i, acc, st, chain) ==
    IF i > Len(elems) THEN [vs |-> acc, st |-> st]
    ELSE LET r == deepDeref(root, elems[i], st, chain)
         IN MapDeref(root, elems, i + 1, Append(acc, r.v), r.st, chain)

\* for (const [k, v] of Object.entries(value)) out[k] = deepDeref(v)
DerefProps(root, value, i, st, chain) ==
    IF i > Len(value.kids) THEN st
    ELSE LET r == deepDeref(root, value.kids[i].x, st, chain)
             out == SetKey(r.st.cache[value.id], value.kids[i].k, r.v)
         IN DerefProps(root, value, i + 1,
                       [r.st EXCEPT !.cache = Put(@, value.id, out),
                                    !.written = @ \cup {out.id}], chain)

\* chain: the identities of the values whose deepDeref frames are on the call
\* stack above this call (not part of the program's state)
deepDeref(root, value, st, chain) ==
    IF IsNullish(value) \/ value.t \notin {"obj", "arr"} THEN [v |-> value, st |-> st]
    ELSE IF value.id \in DOMAIN st.cache
    THEN [v |-> IF value.id \in st.open THEN OpenRef(value.id) ELSE st.cache[value.id],
          st |-> st]
    ELSE IF IsArray(value)
    THEN LET r == MapDeref(root, Elems(value), 1, <<>>, st, chain \cup {value.id})
             out == MkArr(r.st.n, r.vs)
         IN [v |-> out,
             st |-> [r.st EXCEPT !.cache = Put(@, value.id, out), !.n = @ + 1]]
    ELSE IF HasStringRef(value)
    THEN LET ref == Get(value, RefKey).s
             closes == getByPointer(root, ref).id \in chain
         IN
         IF ref \in DOMAIN st.refCache
         THEN LET base == Force(st, st.refCache[ref])
                  m == mergeObjects(base, StripRef(value, st.n), st.n + 1)
              IN [v |-> m.v,
                  st |-> [st EXCEPT !.cache = MemoRef(st, value, m.v), !.n = m.n,
                            !.written = @ \cup m.w,
                            !.log = Append(@, Event("cached", value, base, Undef, m.v, closes,
                                             IsOpen(st, st.refCache[ref]),
                                             Frame(root, st, chain, st.stack)))]]
         ELSE IF ref \in st.stack
         THEN LET out == Sentinel(value, st.n)
              IN [v |-> out,
                  st |-> [st EXCEPT !.n = @ + 1,
                            !.log = Append(@, Event("circular", value, Undef, Undef, out, closes, FALSE,
                                             Frame(root, st, chain, st.stack)))]]
         ELSE LET st1 == [st EXCEPT !.stack = @ \cup {ref}]
                  target == getByPointer(root, ref)
                  r == deepDeref(root, target, st1, chain \cup {value.id})
                  st2 == [r.st EXCEPT !.refCache = Put(@, ref, r.v)]
                  base == Force(st2, r.v)
                  m == mergeObjects(base, StripRef(value, st2.n), st2.n + 1)
              IN [v |-> m.v,
                  st |-> [st2 EXCEPT !.cache = MemoRef(st2, value, m.v), !.n = m.n,
                            !.written = @ \cup m.w,
                            !.stack = Leave(@, ref),
                            !.log = Append(@, Event("first", value, base, Undef, m.v, closes,
                                             IsOpen(st2, r.v),
                                             Frame(root, st, chain, Leave(st2.stack, ref))))]]
    ELSE IF IsArray(Get(value, AllOfKey))
    THEN LET inner == chain \cup {value.id}
             p == MapDeref(root, Elems(Get(value, AllOfKey)), 1, <<>>, st, inner)
             all == ReduceMerge(p.vs, 1, MkObj(p.st.n, <<>>), p.st.n + 1)
             rest == DeleteKey(Copy(value, all.n), AllOfKey)
             r == deepDeref(root, rest, [p.st EXCEPT !.n = all.n + 1], inner)
             m == mergeObjects(all.v, r.v, r.st.n)
         IN [v |-> m.v,
             st |-> [r.st EXCEPT !.cache = Put(@, value.id, m.v), !.n = m.n,
                       !.written = @ \cup all.w \cup {rest.id} \cup m.w,
                       !.log = Append(@, Event("allOf", value, all.v, r.v, m.v, FALSE, FALSE,
                                        Frame(root, st, chain, r.st.stack)))]]
    ELSE LET st1 == [st EXCEPT !.cache = Put(@, value.id, MkObj(st.n, <<>>)),
                               !.n = @ + 1, !.open = @ \cup {value.id}]
             st2 == DerefProps(root, value, 1, st1, chain \cup {value.id})
         IN [v |-> st2.cache[value.id], st |-> [st2 EXCEPT !.open = @ \ {value.id}]]

----------------------------------------------------------------------------
(* Documents for the resolver.  components holds two schemas, under the    *)
(* keys "A" and "B/c" (so a pointer to the second escapes the slash as ~1); *)
(* F holds fragments that refer to them.                                   *)

PA == <<"#", "/", "components", "/", "A">>
PB == <<"#", "/", "components", "/", "B", "~1", "c">>
\* a mapping inside schema A
PAp == PA \o <<"/", "p">>
\* no such key ("A~")
PMissing == <<"#", "/", "components", "/", "A", "~0">>
\* not an in-document pointer
PExternal == <<"other.json", "#", "/", "components", "/", "A">>

Ref(pointer) == O(<<P("$ref", Str(pointer))>>)

BodiesA ==
    { O(<<P("type", S("string"))>>),
      \* A -> B
      O(<<P("type", S("object")), P("y", Ref(PB))>>),
      \* a `$ref` with a sibling that holds a `$ref` of its own
      O(<<P("$ref", Str(PB)), P("x", Ref(PB))>>),
      \* a ref to an ancestor mapping that is no ref target on the way
      O(<<P("p", O(<<P("k", S("v")), P("q", Ref(PAp)), P("z", S("w"))>>))>>),
      \* allOf with local keys that conflict with the branches
      O(<<P("allOf", A(<<Ref(PB),
                         O(<<P("required", A(<<S("a"), S("b")>>)),
                             P("type", S("t1")),
                             P("nul", S("v1")),
                             P("m", O(<<P("k1", S("1"))>>))>>)>>)),
          P("required", A(<<S("b"), S("c")>>)),
          P("type", S("t2")),
          P("nul", Null),
          P("m", O(<<P("k2", S("2"))>>))>>),
      \* unresolvable pointers
      O(<<P("u", O(<<P("$ref", Str(PMissing)), P("title", S("t"))>>)),
          P("e", Ref(PExternal))>>),
      \* an array of refs
      A(<<Ref(PB), S("e"), Ref(PA)>>) }

BodiesB ==
    { O(<<P("type", S("integer")), P("required", A(<<S("b"), S("d")>>))>>),
      \* B -> A
      O(<<P("x", Ref(PA))>>),
      \* B is itself a reference to A
      Ref(PA),
      S("text"),
      Null }

Fragments ==
    A(<<Ref(PA),
        O(<<P("$ref", Str(PB)), P("type", S("local"))>>),
        Ref(PA)>>)

ResolverDoc(a, b) ==
    Number(O(<<P("components", O(<<P("A", a), [k |-> <<"B", "/", "c">>, x |-> b]>>)),
               P("F", Fragments)>>), 1)

ResolverDocs == {ResolverDoc(a, b).v : a \in BodiesA, b \in BodiesB}

\* the first identity the resolver may allocate for a document
RECURSIVE MaxId(_)
MaxId(v) ==
    IF v.t \notin {"obj", "arr"} THEN 0
    ELSE LET below == {MaxId(v.kids[i].x) : i \in 1..Len(v.kids)} \cup {v.id}
         IN CHOOSE m \in below : \A x \in below : x <= m

----------------------------------------------------------------------------
(* The resolver as a state machine: one resolver instance over one         *)
(* document, called from the top level on any fragment of the document.    *)

NoTree == <<>>

ResolverState ==
    [cache |-> cache, refCache |-> refCache, stack |-> resolvingStack, n |-> nextId,
     open |-> {}, log |-> <<>>, written |-> {}]

\* no text loaded, parseOpenAPI not called
InitUnparsed ==
    /\ raw = <<>>
    /\ parsed = <<>>

\* no panel mounted, nothing selected, nothing on disk
InitNoExport ==
    /\ chosen = <<>> /\ project = FALSE /\ activeSource = <<>>
    /\ fs = [dirs |-> {}, files |-> <<>>]
    /\ runs = <<>>
    /\ busy = FALSE /\ confirmOpen = FALSE /\ isSaved = FALSE
    /\ progress = [current |-> 0, total |-> 0]

InitExtra ==
    /\ panel = <<>>
    /\ InitUnparsed
    /\ InitNoExport

InitOthers ==
    /\ content = Undef /\ picked = <<>>
    /\ schema = Undef /\ samples = <<>>
    /\ InitExtra

InitIdle ==
    /\ tree = NoTree /\ built = FALSE
    /\ ma = Undef /\ mb = Undef /\ mr = Undef /\ mdone = FALSE
    /\ InitOthers

InitResolver ==
    /\ doc \in ResolverDocs
    /\ cache = EmptyMap
    /\ refCache = EmptyMap
    /\ resolvingStack = {}
    /\ nextId = MaxId(doc) + 1
    /\ calls = <<>>
    /\ InitIdle

\* deref(fragment), from the top level
Deref(fragment) ==
    /\ Len(calls) < MaxCalls
    /\ LET r == deepDeref(doc, fragment, ResolverState, {})
       IN /\ cache' = r.st.cache
          /\ refCache' = r.st.refCache
          /\ resolvingStack' = r.st.stack
          /\ nextId' = r.st.n
          /\ calls' = Append(calls, [arg |-> fragment, res |-> r.v, log |-> r.st.log,
                                     written |-> r.st.written])
    /\ UNCHANGED <<doc, tree, built, ma, mb, mr, mdone, others, extra>>

NextResolver == \E fragment \in Nodes(doc) : Deref(fragment)

SpecResolver == InitResolver /\ [][NextResolver]_vars

----------------------------------------------------------------------------
(* Vocabulary of the resolver's properties *)

Range(f) == {f[i] : i \in DOMAIN f}

\* the `$ref` fragments and allOf fragments resolved during any top-level call
Events == UNION {Range(calls[i].log) : i \in 1..Len(calls)}
RefEvents == {e \in Events : e.how \in {"cached", "first", "circular"}}
AllOfEvents == {e \in Events : e.how = "allOf"}

\* a key bound to something other than undefined
Present(v, k) == Get(v, k).t # "undef"

\* a circular sentinel: a mapping that carries the circular marker
IsSentinel(m) == IsObject(m) /\ Get(m, CircularKey) = True

\* no mapping inside v has a `$ref`, except circular sentinels
RefFree(v) == \A m \in Nodes(v) : (IsObject(m) /\ Present(m, RefKey)) => IsSentinel(m)

\* the pointers of the documents that name nothing in the document
UnfoundPointers == {PMissing, PExternal}
Unresolvable(fragment) ==
    HasStringRef(fragment) /\ Get(fragment, RefKey).s \in UnfoundPointers

\* the fragment's keys other than `$ref`
Siblings(fragment) == DeleteKey(fragment, RefKey)

\* r lists the elements of xs once each, in the order of their first
\* occurrence in xs; same(x, y) says when two elements are the same
FirstSeenUnion(xs, r, same(_, _)) ==
    /\ \A i \in 1..Len(xs) : \E j \in 1..Len(r) : same(xs[i], r[j])
    /\ \A j \in 1..Len(r) : \E i \in 1..Len(xs) : same(xs[i], r[j])
    /\ \A i, j \in 1..Len(r) : i # j => ~same(r[i], r[j])
    /\ \A i, j \in 1..Len(r) : i < j =>
          \E m \in 1..Len(xs) : /\ same(xs[m], r[i])
                                /\ \A l \in 1..Len(xs) : same(xs[l], r[j]) => m < l

SameValue(x, y) == Erase(x) = Erase(y)

----------------------------------------------------------------------------
(* C1: whatever deref returns contains, at any depth, no mapping with a    *)
(* `$ref` key, except circular sentinels carrying the circular marker.     *)
C1_NoRefInResolved == \A i \in 1..Len(calls) : RefFree(calls[i].res)

(* C2: wherever a `$ref` leads back to a fragment whose resolution is in   *)
(* progress (the cycle closes), deref puts a circular sentinel: the        *)
(* original fragment plus the circular marker.                             *)
C2_CycleClosesWithSentinel ==
    \A e \in RefEvents : e.closes => SameValue(e.res, Sentinel(e.frag, 0))

(* C3 as claimed: deref of a fragment whose `$ref` pointer cannot be found *)
(* returns absent (undefined), not a mapping.                              *)
C3_UnfoundIsAbsent ==
    \A i \in 1..Len(calls) : Unresolvable(calls[i].arg) => calls[i].res = Undef

(* C3 as amended: for a fragment whose `$ref` pointer cannot be found the  *)
(* pointer lookup yields absent, and deref returns a mapping holding the   *)
(* fragment's sibling keys (empty when it has none).                       *)
C3_UnfoundYieldsSiblings ==
    \A i \in 1..Len(calls) :
        Unresolvable(calls[i].arg) =>
            /\ getByPointer(doc, Get(calls[i].arg, RefKey).s) = Undef
            /\ IsObject(calls[i].res)
            /\ SameValue(calls[i].res, Siblings(calls[i].arg))

C3_Witness ==
    \E i \in 1..Len(calls) :
        /\ Unresolvable(calls[i].arg)
        /\ Present(calls[i].arg, <<"title">>)
        /\ Present(calls[i].res, <<"title">>)

Conflicts(e) ==
    {k \in Range(Keys(e.frag)) :
        /\ k # AllOfKey
        /\ HasOwn(e.local, k) /\ HasOwn(e.base, k)
        /\ ~IsObject(Get(e.local, k)) /\ ~IsObject(Get(e.base, k))
        /\ ~SameValue(Get(e.local, k), Get(e.base, k))}

(* C5 as claimed: on a conflict between a local key and the folded allOf   *)
(* result (non-mapping values), the resolved fragment holds the local      *)
(* value.                                                                  *)
C5_LocalWins ==
    \A e \in AllOfEvents : \A k \in Conflicts(e) :
        SameValue(Get(e.res, k), Get(e.local, k))

(* C5 as amended: on such a conflict the resolved fragment holds the local *)
(* value, except that two sequences give their de-duplicated union, the    *)
(* allOf elements first, and a local null gives the allOf value.           *)
C5_LocalWinsUnlessUnionOrNull ==
    \A e \in AllOfEvents : \A k \in Conflicts(e) :
        LET l == Get(e.local, k)
            f == Get(e.base, k)
            r == Get(e.res, k)
        IN IF IsArray(l) /\ IsArray(f)
           THEN IsArray(r) /\ FirstSeenUnion(Elems(f) \o Elems(l), Elems(r), SameValue)
           ELSE IF l.t = "null" THEN SameValue(r, f)
           ELSE SameValue(r, l)

C5_Witness ==
    \E e \in AllOfEvents :
        /\ <<"type">> \in Conflicts(e)
        /\ <<"required">> \in Conflicts(e)
        /\ <<"nul">> \in Conflicts(e)
        /\ Get(e.res, <<"type">>) = S("t2")

(* C6: deref of {$ref: p, ...siblings} is merge(resolved target of p,      *)
(* siblings), the `$ref` key stripped, whether p was resolved for the      *)
(* first time or taken from refCache.                                      *)
C6_RefIsMergeOfTargetAndSiblings ==
    \A e \in RefEvents :
        e.how # "circular" =>
            LET p == Get(e.frag, RefKey).s
                target == Force([cache |-> cache], refCache[p])
            IN SameValue(e.res, mergeObjects(target, Siblings(e.frag), 0).v)

(* C25: resolvingStack holds exactly the ref strings whose resolution      *)
(* frames are on the current call chain: every `$ref` or allOf frame finds *)
(* on the stack the refs of the `$ref` frames above it and leaves the      *)
(* stack as it found it, and the stack is empty whenever a top-level call  *)
(* has returned.                                                           *)
C25_StackIsCallChain ==
    /\ resolvingStack = {}
    /\ \A e \in Events : e.at.entry = e.at.frames /\ e.at.exit = e.at.entry

\* a pointer was resolved for the first time inside the resolution of
\* another pointer, and a cycle was cut while the stack was not empty
C25_Witness ==
    /\ \E e \in Events : e.how = "first" /\ e.at.entry # {}
    /\ \E e \in Events : e.how = "circular" /\ e.at.frames # {}

\* How deep two results are compared
MaxView == 6

\* What a reader of v sees down to depth d: identities forgotten, keys
\* bound to undefined dropped, and a reference to a memoized `out` followed
\* into the cache m
RECURSIVE View(_, _, _)
View(m, v, d) ==
    IF v.t = "open" THEN View(m, m[v.id], d)
    ELSE IF v.t \notin {"obj", "arr"} THEN v
    ELSE IF d = 0 THEN [v EXCEPT !.id = 0, !.kids = <<>>]
    ELSE LET keep == IF v.t = "obj" THEN SelectSeq(v.kids, LAMBDA kv : kv.x.t # "undef")
                     ELSE v.kids
         IN [v EXCEPT !.id = 0,
                      !.kids = [i \in 1..Len(keep) |->
                                   [k |-> keep[i].k, x |-> View(m, keep[i].x, d - 1)]]]

\* deref(fragment) on a resolver created for the document and not used yet
FreshDeref(fragment) ==
    deepDeref(doc, fragment, [cache |-> EmptyMap, refCache |-> EmptyMap, stack |-> {},
                              n |-> nextId, open |-> {}, log |-> <<>>, written |-> {}], {})

(* C28: the caches are transparent: what deref(f) returns on a resolver    *)
(* that has resolved other fragments before is value-equal to what it      *)
(* returns on a fresh resolver for the same document.                      *)
C28_CacheTransparent ==
    \A i \in 1..Len(calls) :
        LET r == FreshDeref(calls[i].arg)
        IN View(cache, calls[i].res, MaxView) = View(r.st.cache, r.v, MaxView)

----------------------------------------------------------------------------
(* mergeObjects called directly on two sequences.  The elements are        *)
(* primitives and two mappings with the same content and different         *)
(* identities.                                                             *)

MaxLen == 2

MergeElements ==
    {Num("1"), Num("2"), Num("3"),
     MkObj(1, <<P("x", Num("1"))>>), MkObj(2, <<P("x", Num("1"))>>)}

RECURSIVE SeqsUpTo(_, _)
SeqsUpTo(set, n) ==
    IF n = 0 THEN {<<>>}
    ELSE LET shorter == SeqsUpTo(set, n - 1)
         IN shorter \cup {Append(q, x) : q \in {r \in shorter : Len(r) = n - 1}, x \in set}

MergeArrays == {MkArr(3, q) : q \in SeqsUpTo(MergeElements, MaxLen)}

InitMerge ==
    /\ ma \in MergeArrays
    /\ mb \in {[a EXCEPT !.id = 4] : a \in MergeArrays}
    /\ mr = Undef
    /\ mdone = FALSE
    /\ doc = Null /\ cache = EmptyMap /\ refCache = EmptyMap /\ resolvingStack = {}
    /\ nextId = 5 /\ calls = <<>> /\ tree = NoTree /\ built = FALSE
    /\ InitOthers

\* mergeObjects(a, b)
Merge ==
    /\ ~mdone
    /\ LET r == mergeObjects(ma, mb, nextId)
       IN mr' = r.v /\ nextId' = r.n
    /\ mdone' = TRUE
    /\ UNCHANGED <<doc, cache, refCache, resolvingStack, calls, tree, built, ma, mb, others,
                   extra>>

NextMerge == Merge

SpecMerge == InitMerge /\ [][NextMerge]_vars

\* Set membership as `new Set` decides it: primitives by value, mappings and
\* sequences by identity
SameElement(x, y) ==
    IF x.id = 0 /\ y.id = 0 THEN x = y ELSE x.id = y.id

(* C7 as claimed: the merge of two sequences is their union without        *)
(* duplicates in first-seen order: the elements of a in a's order, then    *)
(* the elements of b not already present, in b's order.                    *)
C7_UnionWithoutDuplicates ==
    mdone => IsArray(mr) /\ FirstSeenUnion(Elems(ma) \o Elems(mb), Elems(mr), SameValue)

(* C7 as amended: the same, where two primitives are duplicates when they  *)
(* are equal and two mappings (or sequences) only when they are the same   *)
(* object: structurally equal but distinct mappings are both kept.         *)
C7_UnionWithoutDuplicatesByIdentity ==
    mdone => IsArray(mr) /\ FirstSeenUnion(Elems(ma) \o Elems(mb), Elems(mr), SameElement)

C7_Witness ==
    /\ mdone
    /\ Elems(ma) = <<Num("1"), Num("2")>>
    /\ Elems(mb) = <<Num("2"), Num("3")>>
    /\ Elems(mr) = <<Num("1"), Num("2"), Num("3")>>

----------------------------------------------------------------------------
(* openApiToNodes *)

EmptyStr == Prim("str", <<>>)
False == Prim("bool", <<"false">>)
Untagged == S("untagged")

\* ToBoolean
Truthy(v) ==
    ~(\/ v.t \in {"undef", "null"}
      \/ v = EmptyStr
      \/ v = False
      \/ v = Num("0"))

\* String.prototype.toLowerCase on the tokens the documents use
toLowerCase(toks) ==
    [i \in 1..Len(toks) |->
        CASE toks[i] = "GET" -> "get"
          [] toks[i] = "Get" -> "get"
          [] toks[i] = "POST" -> "post"
          [] toks[i] = "Delete" -> "delete"
          [] toks[i] = "Application" -> "application"
          [] toks[i] = "JSON" -> "json"
          [] toks[i] = "OpenAPI" -> "openapi"
          [] OTHER -> toks[i]]

HttpMethods ==
    {<<"get">>, <<"post">>, <<"put">>, <<"patch">>, <<"delete">>, <<"options">>,
     <<"head">>, <<"trace">>}

\* Variant of HttpOf that takes the method key as it is spelled
HttpOf_AsSpelled(method) == method

\* const http = String(method).toLowerCase()
HttpOf(method) == toLowerCase(method)

\* Variant of TagOf that falls back to "untagged" only when there is no first tag
TagOf_KeepsEmpty(op) ==
    LET tags == Get(op, <<"tags">>)
        first == IF Truthy(tags) THEN Get(tags, <<"0">>) ELSE tags
    IN IF first.t # "undef" THEN first ELSE Untagged

\* (op?.tags && op.tags[0]) || "untagged"   (tags is a sequence or absent in
\* the documents modelled; a string's [0] would be its first character)
TagOf(op) ==
    LET tags == Get(op, <<"tags">>)
        first == IF Truthy(tags) THEN Get(tags, <<"0">>) ELSE tags
    IN IF Truthy(first) THEN first ELSE Untagged

\* Variant of FindPath that never finds the path
FindPath_NeverFound(children, path) == 0

\* tagNode.children.find((p) => p.label === path): its index, 0 when absent
FindPath(children, path) ==
    IF \E i \in 1..Len(children) : children[i].label = path
    THEN CHOOSE i \in 1..Len(children) :
            /\ children[i].label = path
            /\ \A j \in 1..(i - 1) : children[j].label # path
    ELSE 0

\* tagIndex as the sequence of its values in insertion order; the index of
\* the TagNode of `name`, 0 when absent
FindTag(tagIndex, name) ==
    IF \E i \in 1..Len(tagIndex) : tagIndex[i].label = name
    THEN CHOOSE i \in 1..Len(tagIndex) : tagIndex[i].label = name
    ELSE 0

\* ensureTag: tagIndex with a TagNode for `name`
ensureTag(tagIndex, name) ==
    IF FindTag(tagIndex, name) # 0 THEN tagIndex
    ELSE Append(tagIndex, [id |-> <<"tag", ":">> \o name.s, description |-> EmptyStr,
                           type |-> "tag", label |-> name, children |-> <<>>])

\* Variant of Place that puts a new PathNode before the others of its tag
Place_NewPathFirst(tagIndex, ep) ==
    LET withTag == ensureTag(tagIndex, ep.tag)
        t == FindTag(withTag, ep.tag)
        tagNode == withTag[t]
        found == FindPath(tagNode.children, ep.path)
        children == IF found # 0 THEN tagNode.children
                    ELSE <<[id |-> <<"path", ":">> \o ep.path \o <<":">> \o ep.tag.s,
                            type |-> "path", label |-> ep.path, children |-> <<>>]>>
                         \o tagNode.children
        p == IF found # 0 THEN found ELSE 1
    IN [withTag EXCEPT ![t].children =
            [children EXCEPT ![p].children = Append(@, ep)]]

\* lines 236-242: the endpoint put under its tag and path
Place(tagIndex, ep) ==
    LET withTag == ensureTag(tagIndex, ep.tag)
        t == FindTag(withTag, ep.tag)
        tagNode == withTag[t]
        found == FindPath(tagNode.children, ep.path)
        children == IF found # 0 THEN tagNode.children
                    ELSE Append(tagNode.children,
                                [id |-> <<"path", ":">> \o ep.path \o <<":">> \o ep.tag.s,
                                 type |-> "path", label |-> ep.path, children |-> <<>>])
        p == IF found # 0 THEN found ELSE Len(children)
    IN [withTag EXCEPT ![t].children =
            [children EXCEPT ![p].children = Append(@, ep)]]

\* The position of a tag label under a.label.localeCompare(b.label), for the
\* labels the documents use (the empty string first, lower case before upper
\* case, and case matters only between otherwise equal labels)
LocaleRank(label) ==
    CASE label = EmptyStr -> 0
      [] label = S("alpha") -> 1
      [] label = S("Alpha") -> 2
      [] label = Untagged -> 3
      [] label = S("Zebra") -> 4

localeCompare(a, b) ==
    IF LocaleRank(a) < LocaleRank(b) THEN -1
    ELSE IF LocaleRank(a) > LocaleRank(b) THEN 1 ELSE 0

\* Array.prototype.sort with (a, b) => a.label.localeCompare(b.label): stable
RECURSIVE SortTags(_)
Insert(sorted, node) ==
    LET after == {i \in 1..Len(sorted) : localeCompare(sorted[i].label, node.label) <= 0}
        k == Cardinality(after)
    IN SubSeq(sorted, 1, k) \o <<node>> \o SubSeq(sorted, k + 1, Len(sorted))
\* Variant of SortTags that leaves the TagNodes in insertion order
SortTags_AsInserted(nodes) == nodes

SortTags(nodes) ==
    IF nodes = <<>> THEN <<>>
    ELSE Const(SortTags(SubSeq(nodes, 1, Len(nodes) - 1)), LAMBDA sorted :
             Insert(sorted, nodes[Len(nodes)]))

\* a.label.localeCompare is not a function: with two or more TagNodes none
\* of whose labels is a string, the first comparison of the sort throws
\* (which operand is the receiver when only some labels are strings depends
\* on the engine's sort; the documents of the model do not mix them)
SortThrows(nodes) ==
    /\ Len(nodes) >= 2
    /\ \A i \in 1..Len(nodes) : nodes[i].label.t # "str"

RECURSIVE DerefEach(_, _, _, _, _)
\* op.parameters.map((p) => deref(p))
DerefEach(root, elems, i, acc, st) ==
    IF i > Len(elems) THEN [vs |-> acc, st |-> st]
    ELSE Const(deepDeref(root, elems[i], st, {}), LAMBDA r :
         Const(Append(acc, r.v), LAMBDA more :
             DerefEach(root, elems, i + 1, more, r.st)))

\* line 217: op.parameters dereferenced one by one, [] when it is no array
opParameters(root, op, st) ==
    IF IsArray(Get(op, <<"parameters">>))
    THEN DerefEach(root, Elems(Get(op, <<"parameters">>)), 1, <<>>, st)
    ELSE [vs |-> <<>>, st |-> st]

\* lines 218-219: part ? deref(part) : undefined
opPart(root, part, st) ==
    IF Truthy(part) THEN deepDeref(root, part, st, {}) ELSE [v |-> Undef, st |-> st]

\* lines 221-234
EndpointNode(path, http, op, parameters, requestBody, responses) ==
    [id |-> <<"ep", ":">> \o http \o <<":">> \o path,
     type |-> "endpoint",
     path |-> path,
     method |-> http,
     operationId |-> Get(op, <<"operationId">>),
     summary |-> Get(op, <<"summary">>),
     description |-> Get(op, <<"description">>),
     parameters |-> parameters,
     requestBody |-> requestBody,
     responses |-> responses,
     tag |-> TagOf(op),
     raw |-> op]

\* lines 209-243, for one [method, op] entry of a path item: w = [tags, st]
VisitOperation(root, path, method, op, w) ==
    IF ~Truthy(op) \/ ~TypeofObject(op) \/ IsArray(op) THEN w
    ELSE IF HttpOf(method) \notin HttpMethods THEN w
    ELSE Const(opParameters(root, op, w.st), LAMBDA ps :
         Const(opPart(root, Get(op, <<"requestBody">>), ps.st), LAMBDA body :
         Const(opPart(root, Get(op, <<"responses">>), body.st), LAMBDA resp :
         Const(EndpointNode(path, HttpOf(method), op, MkArr(resp.st.n, ps.vs),
                            body.v, resp.v), LAMBDA ep :
             [tags |-> Place(w.tags, ep), st |-> [resp.st EXCEPT !.n = @ + 1]]))))

RECURSIVE VisitOperations(_, _, _, _, _)
VisitOperations(root, path, item, i, w) ==
    IF i > Len(item.kids) THEN w
    ELSE Const(VisitOperation(root, path, item.kids[i].k, item.kids[i].x, w), LAMBDA next :
             VisitOperations(root, path, item, i + 1, next))

RECURSIVE VisitPaths(_, _, _, _)
VisitPaths(root, paths, i, w) ==
    IF i > Len(paths.kids) THEN w
    ELSE LET item == paths.kids[i].x
         IN IF ~Truthy(item) \/ ~TypeofObject(item) \/ IsArray(item)
            THEN VisitPaths(root, paths, i + 1, w)
            ELSE Const(VisitOperations(root, paths.kids[i].k, item, 1, w), LAMBDA next :
                     VisitPaths(root, paths, i + 1, next))

\* createOpenApiRefResolver(doc): empty cache, refCache and resolvingStack
FreshResolver(root) ==
    [cache |-> EmptyMap, refCache |-> EmptyMap, stack |-> {},
     n |-> MaxId(root) + 1, open |-> {}, log |-> <<>>, written |-> {}]

openApiToNodes(root) ==
    LET paths == Get(root, <<"paths">>)
    IN IF ~Truthy(paths) \/ ~TypeofObject(paths) \/ IsArray(paths) THEN <<>>
       ELSE Const(VisitPaths(root, paths, 1, [tags |-> <<>>, st |-> FreshResolver(root)]).tags,
                  LAMBDA roots : IF SortThrows(roots) THEN Thrown ELSE SortTags(roots))

\* the identities of the mappings that openApiToNodes(root) assigned a
\* property to or deleted one from, through its resolver
BuildWrites(root) ==
    LET paths == Get(root, <<"paths">>)
    IN IF ~Truthy(paths) \/ ~TypeofObject(paths) \/ IsArray(paths) THEN {}
       ELSE VisitPaths(root, paths, 1, [tags |-> <<>>, st |-> FreshResolver(root)]).st.written

----------------------------------------------------------------------------
(* Documents for the tree builder: two paths, "/a" and "/b", each with one *)
(* of the path items below, or a `paths` that is no mapping.               *)

PathA == <<"/", "a">>
PathB == <<"/", "b">>
PSchema == <<"#", "/", "components", "/", "A">>

Tags(labels) == P("tags", A([i \in 1..Len(labels) |-> S(labels[i])]))
Op(labels) == O(<<Tags(labels), P("summary", S("s"))>>)

PathItems ==
    { \* two operations with different first tags, the second with two tags
      O(<<P("get", Op(<<"Alpha">>)), P("post", Op(<<"Zebra", "Alpha">>))>>),
      \* the same verb spelled twice, and a second operation under the same tag
      O(<<P("get", Op(<<"Alpha">>)), P("GET", Op(<<"Alpha">>)),
          P("put", Op(<<"Alpha">>))>>),
      \* entries that are no operations
      O(<<P("parameters", A(<<O(<<P("name", S("id"))>>)>>)),
          P("summary", S("s")),
          P("Delete", O(<<P("summary", S("s"))>>)),
          P("put", Null),
          P("patch", S("text")),
          P("head", A(<<>>)),
          P("x-get", Op(<<"Zebra">>))>>),
      \* empty tag list, empty first tag
      O(<<P("get", Op(<<"Zebra">>)),
          P("POST", Op(<<"alpha", "Zebra">>)),
          P("trace", O(<<P("tags", A(<<>>))>>)),
          P("options", O(<<P("tags", A(<<EmptyStr, S("Alpha")>>))>>))>>),
      \* an operation whose parts hold references
      O(<<P("get", O(<<P("parameters", A(<<Ref(PSchema)>>)),
                        P("requestBody", Ref(PSchema)),
                        P("responses", O(<<P("ok", Ref(PSchema))>>))>>))>>),
      Null,
      A(<<Op(<<"Alpha">>)>>),
      S("text") }

TreeDoc(paths) ==
    Number(O(<<P("openapi", S("3.0.0")),
               P("paths", paths),
               P("components", O(<<P("A", O(<<P("type", S("string"))>>))>>))>>), 1).v

TreeDocs ==
    {TreeDoc(O(<<[k |-> PathA, x |-> a], [k |-> PathB, x |-> b]>>)) :
        a \in PathItems, b \in PathItems}
    \cup {TreeDoc(O(<<[k |-> PathB, x |-> b], [k |-> PathA, x |-> a]>>)) :
        a \in PathItems, b \in PathItems}
    \cup {TreeDoc(Null), TreeDoc(A(<<>>)), TreeDoc(S("text")), TreeDoc(O(<<>>))}

InitTree ==
    /\ doc \in TreeDocs
    /\ tree = NoTree
    /\ built = FALSE
    /\ cache = EmptyMap /\ refCache = EmptyMap /\ resolvingStack = {}
    /\ nextId = MaxId(doc) + 1 /\ calls = <<>>
    /\ ma = Undef /\ mb = Undef /\ mr = Undef /\ mdone = FALSE
    /\ InitOthers

\* openApiToNodes(doc)
BuildTree ==
    /\ ~built
    /\ tree' = openApiToNodes(doc)
    /\ built' = TRUE
    /\ UNCHANGED <<doc, cache, refCache, resolvingStack, nextId, calls, ma, mb, mr, mdone,
                   others, extra>>

NextTree == BuildTree

SpecTree == InitTree /\ [][NextTree]_vars

----------------------------------------------------------------------------
(* Vocabulary of the tree's properties *)

\* the places of the tree: <<t, p>> is path p of tag t, <<t, p, e>> its endpoint e
PathPlaces == UNION {{<<t, p>> : p \in 1..Len(tree[t].children)} : t \in 1..Len(tree)}
EndpointPlaces ==
    UNION {{<<tp[1], tp[2], e>> : e \in 1..Len(tree[tp[1]].children[tp[2]].children)} :
            tp \in PathPlaces}
EndpointAt(pl) == tree[pl[1]].children[pl[2]].children[pl[3]]

\* the entries of `paths` that are operations: the path-item and the
\* operation are mappings and the method key lower-cases to an HTTP verb
Operations ==
    LET paths == Get(doc, <<"paths">>)
    IN IF ~IsObject(paths) THEN {}
       ELSE UNION {
              IF ~IsObject(paths.kids[i].x) THEN {}
              ELSE {[path |-> paths.kids[i].k,
                     verb |-> toLowerCase(paths.kids[i].x.kids[j].k),
                     op |-> paths.kids[i].x.kids[j].x] :
                       j \in {m \in 1..Len(paths.kids[i].x.kids) :
                                /\ IsObject(paths.kids[i].x.kids[m].x)
                                /\ toLowerCase(paths.kids[i].x.kids[m].k) \in HttpMethods}} :
              i \in 1..Len(paths.kids)}

\* the first declared tag, `untagged` when there is none
FirstTag(op) ==
    LET tags == Get(op, <<"tags">>)
    IN IF IsArray(tags) /\ Len(tags.kids) > 0 /\ tags.kids[1].x # EmptyStr
       THEN tags.kids[1].x ELSE Untagged

(* C8: every operation that passes the filters is exactly one EndpointNode *)
(* of the tree, under the TagNode of its first declared tag, and there is  *)
(* no EndpointNode for anything else.                                      *)
C8_OneEndpointPerOperation ==
    built =>
        /\ \A o \in Operations :
              \E pl \in EndpointPlaces :
                  /\ EndpointAt(pl).raw.id = o.op.id
                  /\ EndpointAt(pl).method = o.verb
                  /\ EndpointAt(pl).path = o.path
                  /\ tree[pl[1]].label = FirstTag(o.op)
                  /\ tree[pl[1]].children[pl[2]].label = o.path
                  /\ \A other \in EndpointPlaces :
                        EndpointAt(other).raw.id = o.op.id => other = pl
        /\ \A pl \in EndpointPlaces : \E o \in Operations : EndpointAt(pl).raw.id = o.op.id

C8_Witness ==
    /\ built
    /\ \E o \in Operations : Len(Get(o.op, <<"tags">>).kids) = 2
    /\ \E o \in Operations : o.verb = <<"delete">> /\ FirstTag(o.op) = Untagged
    /\ \E pl \in EndpointPlaces : EndpointAt(pl).method = <<"delete">>
    /\ Cardinality(EndpointPlaces) >= 3

(* C9: no two EndpointNodes of the tree have the same id `ep:<verb>:<path>`, *)
(* however the method keys are spelled.                                    *)
C9_EndpointIdsUnique ==
    built =>
        \A x, y \in EndpointPlaces : EndpointAt(x).id = EndpointAt(y).id => x = y

(* C10: a TagNode holds at most one PathNode per path string, and a path   *)
(* whose operations have different first tags has one PathNode under each  *)
(* of those tags.                                                          *)
C10_PathNodesPerTag ==
    built =>
        /\ \A x, y \in PathPlaces :
              (x[1] = y[1] /\ tree[x[1]].children[x[2]].label = tree[y[1]].children[y[2]].label)
                  => x = y
        /\ \A o \in Operations :
              \E x \in PathPlaces :
                  /\ tree[x[1]].label = FirstTag(o.op)
                  /\ tree[x[1]].children[x[2]].label = o.path

C10_Witness ==
    /\ built
    /\ \E x, y \in PathPlaces :
          /\ x[1] # y[1]
          /\ tree[x[1]].children[x[2]].label = PathA
          /\ tree[y[1]].children[y[2]].label = PathA
    /\ \E x \in PathPlaces : Len(tree[x[1]].children[x[2]].children) >= 2

(* C11: the tag of every EndpointNode is a non-empty string: the first     *)
(* declared tag of its operation when there is one and it is non-empty,    *)
(* `untagged` otherwise; and the endpoint sits under the TagNode with that *)
(* label.                                                                  *)
C11_TagNonEmpty ==
    built =>
        \A pl \in EndpointPlaces :
            /\ EndpointAt(pl).tag.t = "str"
            /\ EndpointAt(pl).tag # EmptyStr
            /\ EndpointAt(pl).tag = FirstTag(EndpointAt(pl).raw)
            /\ tree[pl[1]].label = EndpointAt(pl).tag
            /\ (~HasOwn(EndpointAt(pl).raw, <<"tags">>) => tree[pl[1]].label = Untagged)

C11_Witness ==
    /\ built
    /\ \E pl \in EndpointPlaces :
          /\ ~HasOwn(EndpointAt(pl).raw, <<"tags">>)
          /\ tree[pl[1]].label = Untagged
    /\ \E pl \in EndpointPlaces :
          /\ Get(Get(EndpointAt(pl).raw, <<"tags">>), <<"0">>) = EmptyStr
          /\ EndpointAt(pl).tag = Untagged
    /\ \E pl \in EndpointPlaces :
          /\ Get(EndpointAt(pl).raw, <<"tags">>) = MkArr(Get(EndpointAt(pl).raw, <<"tags">>).id, <<>>)
          /\ EndpointAt(pl).tag = Untagged

\* The position of a tag label under comparison by UTF-16 code units (upper
\* case before lower case), for the labels the documents use
CodeUnitRank(label) ==
    CASE label = EmptyStr -> 0
      [] label = S("Alpha") -> 1
      [] label = S("Zebra") -> 2
      [] label = S("alpha") -> 3
      [] label = Untagged -> 4

\* the first tags of the operations of the document
TagLabels == {FirstTag(o.op) : o \in Operations}

(* C12, as claimed: the TagNodes are the distinct first tags, each once,   *)
(* in ascending case-sensitive lexicographic (code unit) order of label.   *)
C12_SortedCaseSensitive ==
    built =>
        /\ {tree[t].label : t \in 1..Len(tree)} = TagLabels
        /\ \A t, u \in 1..Len(tree) :
              t < u => CodeUnitRank(tree[t].label) < CodeUnitRank(tree[u].label)

(* C12, amended: the TagNodes are the distinct first tags, each once, in   *)
(* ascending order of label under locale-aware comparison (localeCompare). *)
C12_SortedByLocaleCompare ==
    built =>
        /\ {tree[t].label : t \in 1..Len(tree)} = TagLabels
        /\ \A t, u \in 1..Len(tree) :
              t < u => localeCompare(tree[t].label, tree[u].label) < 0

C12_Witness ==
    /\ built
    /\ Len(tree) = 3
    /\ tree[1].label = S("alpha") /\ tree[3].label = S("Zebra")
    /\ FirstTag(Get(Get(Get(doc, <<"paths">>), PathA), <<"get">>)) = S("Zebra")

\* the position of a path among the keys of `paths`, and of the operation
\* with identity id among the entries of its path-item
PathIndex(path) == IndexOfKey(Get(doc, <<"paths">>), path)
MethodIndex(path, id) ==
    CHOOSE j \in 1..Len(Get(Get(doc, <<"paths">>), path).kids) :
        Get(Get(doc, <<"paths">>), path).kids[j].x.id = id

(* C13: under each TagNode the PathNodes are in the order in which their   *)
(* paths come in `paths`, and under each PathNode the EndpointNodes are in *)
(* the order of the method keys of the path-item.                          *)
C13_FirstSeenOrder ==
    built =>
        /\ \A x, y \in PathPlaces :
              (x[1] = y[1] /\ x[2] < y[2]) =>
                  PathIndex(tree[x[1]].children[x[2]].label)
                      < PathIndex(tree[y[1]].children[y[2]].label)
        /\ \A x, y \in EndpointPlaces :
              (x[1] = y[1] /\ x[2] = y[2] /\ x[3] < y[3]) =>
                  MethodIndex(EndpointAt(x).path, EndpointAt(x).raw.id)
                      < MethodIndex(EndpointAt(y).path, EndpointAt(y).raw.id)

C13_Witness ==
    /\ built
    /\ \E x, y \in PathPlaces :
          /\ x[1] = y[1] /\ x[2] < y[2]
          /\ tree[x[1]].children[x[2]].label = PathB
          /\ tree[y[1]].children[y[2]].label = PathA
    /\ \E x, y \in EndpointPlaces :
          /\ x[1] = y[1] /\ x[2] = y[2] /\ x[3] < y[3]
          /\ EndpointAt(x).method = <<"get">> /\ EndpointAt(y).method = <<"put">>

----------------------------------------------------------------------------
(* pickJsonishContent.  Media types are strings cut at "/" and "+".        *)

ApplicationJson == <<"application", "/", "json">>
AnyType == <<"*", "/", "*">>

\* /^application\/.+\+json$/i.test(k)
IsPlusJson(k) ==
    /\ Len(k) >= 5
    /\ toLowerCase(k)[1] = "application"
    /\ toLowerCase(k)[2] = "/"
    /\ toLowerCase(k)[Len(k) - 1] = "+"
    /\ toLowerCase(k)[Len(k)] = "json"

\* Object.keys(content).find(test): the index of the first such key, 0 when none
FindPlusJson(c) ==
    IF \E i \in 1..Len(c.kids) : IsPlusJson(c.kids[i].k)
    THEN CHOOSE i \in 1..Len(c.kids) :
            /\ IsPlusJson(c.kids[i].k)
            /\ \A j \in 1..(i - 1) : ~IsPlusJson(c.kids[j].k)
    ELSE 0

pickJsonishContent(c) ==
    IF ~Truthy(c) \/ ~TypeofObject(c) THEN Undef
    ELSE IF Truthy(Get(c, ApplicationJson)) THEN Get(c, ApplicationJson)
    ELSE IF FindPlusJson(c) # 0 THEN c.kids[FindPlusJson(c)].x
    ELSE IF Truthy(Get(c, AnyType)) THEN Get(c, AnyType)
    ELSE IF Len(c.kids) > 0 THEN c.kids[1].x
    ELSE Undef

(* Content maps: up to MaxKeys distinct media types in any order, each     *)
(* with a media-type entry of its own or null; and contents that are no    *)
(* mappings.                                                               *)

MaxKeys == 3

MediaTypes ==
    { ApplicationJson,
      <<"application", "/", "vnd.api", "+", "json">>,
      <<"Application", "/", "problem", "+", "JSON">>,
      <<"application", "/", "+", "json">>,
      <<"application", "/", "xml">>,
      AnyType }

\* the media-type entry written under key k at position i
Entry(i) == MkObj(i + 1, <<P("schema", MkObj(i + 10, <<P("title", Num("1"))>>))>>)

KeyLists ==
    UNION {{ks \in [1..n -> MediaTypes] : \A i, j \in 1..n : ks[i] = ks[j] => i = j} :
            n \in 0..MaxKeys}

ContentMaps ==
    UNION {{MkObj(1, [i \in 1..Len(ks) |->
                        [k |-> ks[i], x |-> IF i \in nulls THEN Null ELSE Entry(i)]]) :
                nulls \in SUBSET (1..Len(ks))} : ks \in KeyLists}

Contents == ContentMaps \cup {Undef, Null, S("text"), MkArr(1, <<Entry(1)>>)}

InitPick ==
    /\ content \in Contents
    /\ picked = <<>>
    /\ schema = Undef /\ samples = <<>>
    /\ doc = Null /\ cache = EmptyMap /\ refCache = EmptyMap /\ resolvingStack = {}
    /\ nextId = 1 /\ calls = <<>> /\ tree = NoTree /\ built = FALSE
    /\ ma = Undef /\ mb = Undef /\ mr = Undef /\ mdone = FALSE
    /\ InitExtra

\* pickJsonishContent(content)
Pick ==
    /\ picked = <<>>
    /\ picked' = <<pickJsonishContent(content)>>
    /\ UNCHANGED <<doc, cache, refCache, resolvingStack, nextId, calls, tree, built,
                   ma, mb, mr, mdone, content, schema, samples, extra>>

NextPick == Pick

SpecPick == InitPick /\ [][NextPick]_vars

\* the entry the precedence of section 4.4 selects, by the keys present
PickByKey(c) ==
    IF IsNullish(c) THEN Undef
    ELSE IF HasOwn(c, ApplicationJson) THEN Get(c, ApplicationJson)
    ELSE IF FindPlusJson(c) # 0 THEN c.kids[FindPlusJson(c)].x
    ELSE IF HasOwn(c, AnyType) THEN Get(c, AnyType)
    ELSE IF Len(c.kids) > 0 THEN c.kids[1].x
    ELSE Undef

----------------------------------------------------------------------------
(* sampleFromSchema.  `now` is the reading of the clock, [date, time].     *)

MaxDepth == 8

\* the key of index i of an array seen as an object
IndexKey(i) == CASE i = 1 -> <<"0">> [] i = 2 -> <<"1">> [] OTHER -> <<"2">>
IndexKeys == {<<"0">>, <<"1">>, <<"2">>}

\* Variant of Entries that stops after the first entry
Entries_FirstOnly(v) ==
    IF IsObject(v) /\ Len(v.kids) > 0 THEN <<v.kids[1]>> ELSE <<>>

\* Object.entries(v): own keys and values (index keys for an array; nothing
\* for null, a number or a boolean; the characters of a string are outside
\* the model)
Entries(v) ==
    IF IsObject(v) THEN v.kids
    ELSE IF IsArray(v) THEN [i \in 1..Len(v.kids) |-> [k |-> IndexKey(i), x |-> v.kids[i].x]]
    ELSE <<>>

\* { ...acc, ...v }: integer-like keys come first in a JavaScript object
RECURSIVE Assign(_, _, _)
Assign(acc, entries, i) ==
    IF i > Len(entries) THEN acc
    ELSE Assign(SetKey(acc, entries[i].k, entries[i].x), entries, i + 1)
Spread(acc, v) ==
    Const(Assign(MkObj(0, acc.kids), Entries(v), 1), LAMBDA out :
        MkObj(0, SelectSeq(out.kids, LAMBDA kv : kv.k \in IndexKeys)
                 \o SelectSeq(out.kids, LAMBDA kv : kv.k \notin IndexKeys)))

\* v?.length, as a condition
HasLength(v) ==
    IF IsArray(v) THEN Len(v.kids) > 0
    ELSE IF v.t = "str" THEN v.s # <<>>
    ELSE IF IsObject(v) THEN Truthy(Get(v, <<"length">>))
    ELSE FALSE

\* v[0] where v?.length holds (the strings used as sequences in the
\* documents are of one-character tokens)
First(v) ==
    IF v.t = "str" THEN S(v.s[1]) ELSE Get(v, <<"0">>)

\* new Date().toISOString(), and its slice(0, 10)
toISOString(now) == Str(<<now.date, now.time>>)
DateOf(now) == Str(<<now.date>>)

\* Variant of TooDeep without a cap
TooDeep_Never(depth) == FALSE

\* depth > 8
TooDeep(depth) == depth > MaxDepth

\* Variant of Literal that looks at `default` before `const` and `enum`
Literal_DefaultFirst(s) ==
    IF Get(s, <<"default">>) # Undef THEN <<Get(s, <<"default">>)>>
    ELSE IF Get(s, <<"const">>) # Undef THEN <<Get(s, <<"const">>)>>
    ELSE IF IsArray(Get(s, <<"enum">>)) /\ Len(Get(s, <<"enum">>).kids) > 0
         THEN <<Get(s, <<"enum">>).kids[1].x>>
    ELSE IF Get(s, <<"example">>) # Undef THEN <<Get(s, <<"example">>)>>
    ELSE <<>>

\* lines 268-271: <<the value returned>>, or <<>> when none of the four applies
Literal(s) ==
    IF Get(s, <<"const">>) # Undef THEN <<Get(s, <<"const">>)>>
    ELSE IF IsArray(Get(s, <<"enum">>)) /\ Len(Get(s, <<"enum">>).kids) > 0
         THEN <<Get(s, <<"enum">>).kids[1].x>>
    ELSE IF Get(s, <<"default">>) # Undef THEN <<Get(s, <<"default">>)>>
    ELSE IF Get(s, <<"example">>) # Undef THEN <<Get(s, <<"example">>)>>
    ELSE <<>>

\* line 273
TypeOfSchema(s) ==
    IF Truthy(Get(s, <<"type">>)) THEN Get(s, <<"type">>)
    ELSE IF Truthy(Get(s, <<"properties">>)) THEN S("object")
    ELSE IF Truthy(Get(s, <<"items">>)) THEN S("array")
    ELSE Undef

\* lines 296-300
SampleString(s, now) ==
    CASE Get(s, <<"format">>) = S("date-time") -> toISOString(now)
      [] Get(s, <<"format">>) = S("date") -> DateOf(now)
      [] Get(s, <<"format">>) = S("uuid") -> S("00000000-0000-0000-0000-000000000000")
      [] Get(s, <<"format">>) = S("email") -> S("user@example.com")
      [] OTHER -> S("string")

\* line 307
FoldStep(acc, v) ==
    IF TypeofObject(acc) /\ Truthy(acc) /\ TypeofObject(v) /\ Truthy(v) THEN Spread(acc, v)
    ELSE IF IsNullish(acc) THEN v ELSE acc

RECURSIVE sampleFromSchema(_, _, _)
RECURSIVE SampleProps(_, _, _, _, _)
RECURSIVE SampleAllOf(_, _, _, _, _)

\* lines 279-281
SampleProps(entries, i, out, depth, now) ==
    IF i > Len(entries) THEN out
    ELSE Const(sampleFromSchema(entries[i].x, depth + 1, now), LAMBDA v :
             IF v = Thrown THEN Thrown
             ELSE Const(SetKey(out, entries[i].k, v), LAMBDA more :
                      SampleProps(entries, i + 1, more, depth, now)))

\* lines 305-308
SampleAllOf(branches, i, acc, depth, now) ==
    IF i > Len(branches) THEN acc
    ELSE Const(sampleFromSchema(branches[i], depth + 1, now), LAMBDA v :
             IF v = Thrown THEN Thrown
             ELSE Const(FoldStep(acc, v), LAMBDA more :
                      SampleAllOf(branches, i + 1, more, depth, now)))

sampleFromSchema(s, depth, now) ==
    IF ~Truthy(s) \/ TooDeep(depth) THEN Null
    ELSE IF Literal(s) # <<>> THEN Literal(s)[1]
    ELSE CASE TypeOfSchema(s) = S("object") ->
                SampleProps(Entries(IF Truthy(Get(s, <<"properties">>))
                                    THEN Get(s, <<"properties">>) ELSE MkObj(0, <<>>)),
                            1, MkObj(0, <<>>), depth, now)
           [] TypeOfSchema(s) = S("array") ->
                Const(sampleFromSchema(IF Truthy(Get(s, <<"items">>))
                                       THEN Get(s, <<"items">>) ELSE MkObj(0, <<>>),
                                       depth + 1, now),
                      LAMBDA v : IF v = Thrown THEN Thrown ELSE MkArr(0, <<v>>))
           [] TypeOfSchema(s) \in {S("integer"), S("number")} -> Num("0")
           [] TypeOfSchema(s) = S("boolean") -> False
           [] TypeOfSchema(s) = S("string") -> SampleString(s, now)
           [] OTHER ->
                IF HasLength(Get(s, <<"anyOf">>))
                THEN sampleFromSchema(First(Get(s, <<"anyOf">>)), depth + 1, now)
                ELSE IF HasLength(Get(s, <<"oneOf">>))
                THEN sampleFromSchema(First(Get(s, <<"oneOf">>)), depth + 1, now)
                ELSE IF HasLength(Get(s, <<"allOf">>))
                THEN IF IsArray(Get(s, <<"allOf">>))
                     THEN SampleAllOf(Elems(Get(s, <<"allOf">>)), 1, MkObj(0, <<>>), depth, now)
                     ELSE Thrown
                ELSE Null

(* Schemas: every combination of const / enum / default / example over a   *)
(* typed schema, the types and formats, objects and arrays with declared   *)
(* or inferred type, the combinators, and arrays and objects nested up to  *)
(* MaxNest deep.                                                           *)

MaxNest == 10

Typed(t) == O(<<P("type", S(t))>>)
Format(f) == O(<<P("type", S("string")), P("format", S(f))>>)
Integer == Typed("integer")
PropsAB == O(<<P("a", Integer), P("b", Format("uuid"))>>)

LiteralKeys ==
    { P("const", S("c")), P("const", Null), P("enum", A(<<S("e1"), S("e2")>>)),
      P("enum", A(<<>>)), P("default", S("d")), P("example", S("x")) }

\* the literal keys of a chosen set, in a fixed order, after the type
LiteralSchemas ==
    {O(<<P("type", S("integer"))>>
       \o SelectSeq(<<P("example", S("x")), P("default", S("d")),
                      P("enum", A(<<S("e1"), S("e2")>>)), P("enum", A(<<>>)),
                      P("const", S("c")), P("const", Null)>>,
                    LAMBDA kv : kv \in ks)) :
        ks \in {x \in SUBSET LiteralKeys :
                  /\ Cardinality({kv \in x : kv.k = <<"const">>}) <= 1
                  /\ Cardinality({kv \in x : kv.k = <<"enum">>}) <= 1}}

TypedSchemas ==
    { Integer, Typed("number"), Typed("boolean"), Typed("string"), Typed("null"),
      Format("uuid"), Format("email"), Format("date-time"), Format("date"),
      Format("byte"), O(<<>>),
      Typed("object"),
      O(<<P("type", S("object")), P("properties", O(<<>>))>>),
      O(<<P("type", S("object")), P("properties", PropsAB)>>),
      O(<<P("properties", PropsAB)>>),
      O(<<P("properties", O(<<P("n", O(<<P("properties", PropsAB)>>)),
                              P("when", Format("date-time"))>>))>>),
      O(<<P("properties", PropsAB), P("items", Integer)>>),
      O(<<P("type", S("string")), P("properties", PropsAB)>>),
      Typed("array"),
      O(<<P("type", S("array")), P("items", Format("email"))>>),
      O(<<P("items", O(<<P("properties", PropsAB)>>))>>),
      O(<<P("items", O(<<P("enum", A(<<Num("7"), Num("8")>>))>>))>>) }

CombinatorSchemas ==
    { O(<<P("anyOf", A(<<Integer, Typed("string")>>))>>),
      O(<<P("anyOf", A(<<>>)), P("oneOf", A(<<Typed("boolean"), Integer>>))>>),
      O(<<P("oneOf", A(<<Format("date")>>)), P("allOf", A(<<Integer>>))>>),
      O(<<P("allOf", A(<<Integer>>)), P("oneOf", A(<<Typed("string")>>)),
          P("anyOf", A(<<O(<<P("properties", PropsAB)>>)>>))>>),
      O(<<P("type", S("integer")), P("anyOf", A(<<Typed("string")>>))>>),
      O(<<P("allOf", A(<<>>))>>),
      O(<<P("allOf", A(<<Integer>>))>>),
      O(<<P("allOf", A(<<Typed("null"), Typed("string")>>))>>),
      O(<<P("allOf", A(<<O(<<P("properties", PropsAB)>>), Integer>>))>>),
      O(<<P("allOf", A(<<Integer, O(<<P("properties", PropsAB)>>)>>))>>),
      O(<<P("allOf", A(<<O(<<P("properties", PropsAB)>>),
                         O(<<P("properties", O(<<P("b", Integer), P("c", Integer)>>))>>)>>))>>),
      O(<<P("allOf", A(<<O(<<P("properties", PropsAB)>>), Typed("array")>>))>>),
      O(<<P("anyOf", A(<<O(<<P("allOf", A(<<Typed("string")>>))>>)>>))>>) }

\* leaf under k levels of arrays, and under k levels of objects
RECURSIVE ArrayNest(_, _)
ArrayNest(k, leaf) ==
    IF k = 0 THEN leaf
    ELSE O(<<P("type", S("array")), P("items", ArrayNest(k - 1, leaf))>>)
RECURSIVE ObjectNest(_, _)
ObjectNest(k, leaf) ==
    IF k = 0 THEN leaf
    ELSE O(<<P("properties", O(<<P("p", ObjectNest(k - 1, leaf))>>))>>)

Leaf == O(<<P("const", S("x"))>>)

NestedSchemas ==
    {ArrayNest(k, Leaf) : k \in 1..MaxNest} \cup {ObjectNest(k, Integer) : k \in 1..MaxNest}

Schemas ==
    {Number(x, 1).v : x \in LiteralSchemas \cup TypedSchemas \cup CombinatorSchemas
                             \cup NestedSchemas}

Times ==
    { [date |-> "2026-01-01", time |-> "T00:00:00.000Z"],
      [date |-> "2026-01-01", time |-> "T12:00:00.000Z"],
      [date |-> "2026-01-02", time |-> "T00:00:00.000Z"] }

InitSample ==
    /\ schema \in Schemas
    /\ samples = <<>>
    /\ content = Undef /\ picked = <<>>
    /\ doc = Null /\ cache = EmptyMap /\ refCache = EmptyMap /\ resolvingStack = {}
    /\ nextId = 1 /\ calls = <<>> /\ tree = NoTree /\ built = FALSE
    /\ ma = Undef /\ mb = Undef /\ mr = Undef /\ mdone = FALSE
    /\ InitExtra

\* sampleFromSchema(schema) when the clock reads `now`
Sample(now) ==
    /\ Len(samples) < MaxCalls
    /\ samples' = Append(samples, [now |-> now, v |-> sampleFromSchema(schema, 0, now)])
    /\ UNCHANGED <<doc, cache, refCache, resolvingStack, nextId, calls, tree, built,
                   ma, mb, mr, mdone, content, picked, schema, extra>>

NextSample == \E now \in Times : Sample(now)

SpecSample == InitSample /\ [][NextSample]_vars

----------------------------------------------------------------------------
(* Vocabulary of the synthesizer's properties *)

\* the schema and every mapping inside it
SchemaNodes == {schema} \cup {n \in Nodes(schema) : IsObject(n)}

\* the depths at which a node is synthesized
Depths == 0..MaxDepth

HasLiteral(n) ==
    \/ HasOwn(n, <<"const">>)
    \/ (IsArray(Get(n, <<"enum">>)) /\ Len(Get(n, <<"enum">>).kids) > 0)
    \/ HasOwn(n, <<"default">>)
    \/ HasOwn(n, <<"example">>)

\* the declared type, or the one inferred from `properties` or `items`
DeclaredType(n) ==
    IF HasOwn(n, <<"type">>) THEN Get(n, <<"type">>)
    ELSE IF HasOwn(n, <<"properties">>) THEN S("object")
    ELSE IF HasOwn(n, <<"items">>) THEN S("array")
    ELSE Undef

\* v is what the first applicable rule of section 4.5 gives at node n
FirstRule(n, v) ==
    IF HasOwn(n, <<"const">>) THEN v = Get(n, <<"const">>)
    ELSE IF IsArray(Get(n, <<"enum">>)) /\ Len(Get(n, <<"enum">>).kids) > 0
         THEN v = Get(n, <<"enum">>).kids[1].x
    ELSE IF HasOwn(n, <<"default">>) THEN v = Get(n, <<"default">>)
    ELSE IF HasOwn(n, <<"example">>) THEN v = Get(n, <<"example">>)
    ELSE CASE DeclaredType(n) = S("object") -> IsObject(v)
           [] DeclaredType(n) = S("array") -> IsArray(v)
           [] DeclaredType(n) \in {S("integer"), S("number")} -> v = Num("0")
           [] DeclaredType(n) = S("boolean") -> v = False
           [] DeclaredType(n) = S("string") -> v.t = "str"
           [] OTHER -> TRUE

(* C15: at every schema node the sample is the `const` value, else the     *)
(* first element of a non-empty `enum`, else `default`, else `example`,    *)
(* and only then a value of the declared type, or of the type inferred     *)
(* from `properties` (object) or `items` (array).                          *)
C15_FirstApplicableRule ==
    \A i \in 1..Len(samples) :
        /\ FirstRule(schema, samples[i].v)
        /\ \A n \in SchemaNodes : \A d \in Depths :
              FirstRule(n, sampleFromSchema(n, d, samples[i].now))

C15_Witness ==
    /\ Len(samples) >= 1
    /\ ~HasOwn(schema, <<"const">>)
    /\ HasOwn(schema, <<"default">>) /\ HasOwn(schema, <<"example">>)
    /\ Len(Get(schema, <<"enum">>).kids) = 2
    /\ samples[1].v = S("e1")

RECURSIVE ArrayValue(_, _)
ArrayValue(k, leaf) == IF k = 0 THEN leaf ELSE MkArr(0, <<ArrayValue(k - 1, leaf)>>)
RECURSIVE ObjectValue(_, _)
ObjectValue(k, leaf) == IF k = 0 THEN leaf ELSE MkObj(0, <<P("p", ObjectValue(k - 1, leaf))>>)

Min(a, b) == IF a < b THEN a ELSE b

(* C16: a node reached at a depth greater than the cap yields null and     *)
(* nothing below it is visited: the sample of a schema nested k deep is    *)
(* nested at most cap + 1 deep, with null in the place of what lies        *)
(* deeper in the schema.                                                   *)
C16_DepthCapped ==
    \A i \in 1..Len(samples) :
        /\ \A n \in SchemaNodes : \A d \in (MaxDepth + 1)..(MaxDepth + 3) :
              sampleFromSchema(n, d, samples[i].now) = Null
        /\ \A k \in 1..MaxNest :
              /\ Erase(schema) = ArrayNest(k, Leaf) =>
                    samples[i].v = ArrayValue(Min(k, MaxDepth + 1),
                                              IF k <= MaxDepth THEN S("x") ELSE Null)
              /\ Erase(schema) = ObjectNest(k, Integer) =>
                    samples[i].v = ObjectValue(Min(k, MaxDepth + 1),
                                               IF k <= MaxDepth THEN Num("0") ELSE Null)

C16_Witness ==
    /\ Len(samples) >= 1
    /\ Erase(schema) = ArrayNest(MaxNest, Leaf)
    /\ samples[1].v = ArrayValue(MaxDepth + 1, Null)

(* C17: two calls with the same schema return the same sample, whatever    *)
(* the clock reads at each call.                                           *)
C17_Deterministic ==
    \A i, j \in 1..Len(samples) : samples[i].v = samples[j].v

\* the left fold of the branch samples: shallow merge of two mappings,
\* otherwise the side that is not null
RECURSIVE FoldBranches(_, _, _)
FoldBranches(vs, i, acc) ==
    IF i > Len(vs) THEN acc
    ELSE FoldBranches(vs, i + 1,
            IF IsObject(acc) /\ IsObject(vs[i]) THEN Spread(acc, vs[i])
            ELSE IF acc # Null THEN acc ELSE vs[i])

\* what section 4.5 gives at a node without a determinable type
Combined(n, d, now) ==
    IF IsArray(Get(n, <<"anyOf">>)) /\ Len(Get(n, <<"anyOf">>).kids) > 0
    THEN sampleFromSchema(Get(n, <<"anyOf">>).kids[1].x, d + 1, now)
    ELSE IF IsArray(Get(n, <<"oneOf">>)) /\ Len(Get(n, <<"oneOf">>).kids) > 0
    THEN sampleFromSchema(Get(n, <<"oneOf">>).kids[1].x, d + 1, now)
    ELSE IF IsArray(Get(n, <<"allOf">>)) /\ Len(Get(n, <<"allOf">>).kids) > 0
    THEN FoldBranches([b \in 1..Len(Get(n, <<"allOf">>).kids) |->
                          sampleFromSchema(Get(n, <<"allOf">>).kids[b].x, d + 1, now)],
                      2, sampleFromSchema(Get(n, <<"allOf">>).kids[1].x, d + 1, now))
    ELSE Null

(* C18: at a node with no literal and no determinable type the sample is   *)
(* that of anyOf[0], else of oneOf[0], else the left fold of the samples   *)
(* of the allOf branches, else null.                                       *)
C18_CombinatorFallback ==
    \A i \in 1..Len(samples) :
        \A n \in SchemaNodes :
            (~HasLiteral(n) /\ DeclaredType(n) = Undef) =>
                sampleFromSchema(n, 0, samples[i].now) = Combined(n, 0, samples[i].now)

(* C19: without const/enum/default/example, an object schema yields a      *)
(* mapping with exactly the declared property names, each with the sample  *)
(* of its sub-schema, and an array schema yields a sequence of exactly one *)
(* element, the sample of `items`.                                         *)
C19_ObjectsAndArrays ==
    \A i \in 1..Len(samples) :
        \A n \in SchemaNodes : \A d \in Depths :
            LET v == IF n = schema /\ d = 0 THEN samples[i].v
                     ELSE sampleFromSchema(n, d, samples[i].now)
                props == Get(n, <<"properties">>)
            IN ~HasLiteral(n) =>
                 /\ DeclaredType(n) = S("object") =>
                       /\ IsObject(v)
                       /\ Keys(v) = (IF IsObject(props) THEN Keys(props) ELSE <<>>)
                       /\ \A j \in 1..Len(v.kids) :
                             v.kids[j].x =
                                 sampleFromSchema(props.kids[j].x, d + 1, samples[i].now)
                 /\ DeclaredType(n) = S("array") =>
                       /\ IsArray(v)
                       /\ Len(v.kids) = 1
                       /\ v.kids[1].x =
                             sampleFromSchema(Get(n, <<"items">>), d + 1, samples[i].now)

C19_Witness ==
    /\ Len(samples) >= 1
    /\ Erase(schema) = ObjectNest(1, Integer)
    /\ samples[1].v = MkObj(0, <<P("p", Num("0"))>>)

----------------------------------------------------------------------------
(* Malformed fragments: documents whose operations and schema hold values  *)
(* of the wrong type, given to resolve, buildTree and synthesize.          *)

MalformedFragments ==
    { O(<<P("allOf", S("x"))>>),
      O(<<P("allOf", O(<<P("length", Num("1"))>>))>>),
      O(<<P("properties", O(<<P("a", O(<<P("allOf", S("x"))>>))>>))>>),
      O(<<P("anyOf", S("x"))>>),
      O(<<P("anyOf", Num("5"))>>),
      O(<<P("oneOf", O(<<P("length", Num("1"))>>))>>),
      O(<<P("type", Num("5"))>>),
      O(<<P("type", A(<<S("string")>>))>>),
      O(<<P("properties", Num("5"))>>),
      O(<<P("type", S("object")), P("properties", A(<<Integer>>))>>),
      O(<<P("type", S("object")), P("properties", O(<<P("a", Null), P("b", S("x"))>>))>>),
      O(<<P("type", S("object")), P("properties", O(<<>>))>>),
      O(<<P("type", S("array")), P("items", S("x"))>>),
      O(<<P("type", S("string")), P("enum", S("x"))>>),
      O(<<[k |-> RefKey, x |-> Num("5")], P("format", Num("5"))>>),
      O(<<[k |-> RefKey, x |-> Str(<<"#", "/", "components", "/", "A", "/", "nowhere">>)]>>),
      A(<<>>), S("x"), Num("5"), True }

\* the `tags` of the two operations of the document
MalformedTags ==
    { <<A(<<Num("5")>>), A(<<Num("7")>>)>>,
      <<A(<<Num("5")>>), A(<<Num("5")>>)>>,
      <<Num("5"), True>>,
      <<A(<<S("Zebra")>>), A(<<S("Alpha")>>)>> }

MalformedDoc(f, tags) ==
    Number(O(<<P("openapi", S("3.0.0")),
               P("paths", O(<<[k |-> PathA, x |->
                    O(<<P("get", O(<<P("tags", tags[1]), P("requestBody", f)>>)),
                        P("post", O(<<P("tags", tags[2]), P("parameters", f),
                                      P("responses", Num("5"))>>))>>)]>>)),
               P("components", O(<<P("A", f)>>))>>), 1).v

InitMalformed ==
    /\ doc \in {MalformedDoc(f, tags) : f \in MalformedFragments, tags \in MalformedTags}
    /\ schema = Get(Get(doc, <<"components">>), <<"A">>)
    /\ samples = <<>>
    /\ content = Undef /\ picked = <<>>
    /\ cache = EmptyMap /\ refCache = EmptyMap /\ resolvingStack = {}
    /\ nextId = MaxId(doc) + 1 /\ calls = <<>> /\ tree = NoTree /\ built = FALSE
    /\ ma = Undef /\ mb = Undef /\ mr = Undef /\ mdone = FALSE
    /\ InitExtra

\* resolve, buildTree and synthesize, MaxCalls calls in all
NextMalformed ==
    /\ Len(calls) + Len(samples) + (IF built THEN 1 ELSE 0) < MaxCalls
    /\ (NextResolver \/ NextTree \/ NextSample)

SpecMalformed == InitMalformed /\ [][NextMalformed]_vars

(* C20: on a malformed but structurally well-formed fragment none of       *)
(* resolve, buildTree and synthesize throws: each returns a value.         *)
C20_NeverThrows ==
    /\ \A i \in 1..Len(calls) : calls[i].res # Thrown
    /\ tree # Thrown
    /\ \A i \in 1..Len(samples) : samples[i].v # Thrown

----------------------------------------------------------------------------
(* resolve and buildTree on one document: a resolver document or a tree    *)
(* document, MaxCalls calls in all, in any order.                          *)

InitReadOnly ==
    /\ doc \in ResolverDocs \cup TreeDocs
    /\ cache = EmptyMap /\ refCache = EmptyMap /\ resolvingStack = {}
    /\ nextId = MaxId(doc) + 1 /\ calls = <<>>
    /\ InitIdle

NextReadOnly ==
    /\ Len(calls) + (IF built THEN 1 ELSE 0) < MaxCalls
    /\ (NextResolver \/ NextTree)

SpecReadOnly == InitReadOnly /\ [][NextReadOnly]_vars

\* the identities of the document's mappings and sequences
DocIds == {x.id : x \in Nodes(doc)}

(* C26: resolve and buildTree never modify the input document: no property *)
(* of a mapping of the document is assigned or deleted, by any call, and   *)
(* the raw operation of every endpoint node is the document's operation at *)
(* that path and method, untouched.                                        *)
C26_DocumentUnchanged ==
    /\ \A i \in 1..Len(calls) : calls[i].written \cap DocIds = {}
    /\ built => BuildWrites(doc) \cap DocIds = {}
    /\ built =>
          \A pl \in EndpointPlaces :
              \E o \in Operations :
                  /\ o.path = EndpointAt(pl).path
                  /\ o.verb = EndpointAt(pl).method
                  /\ o.op = EndpointAt(pl).raw

\* a resolve that merged and copied, then a build that produced endpoints
\* and resolved their parts; and a resolve of an allOf fragment
C26_Witness ==
    \/ /\ Len(calls) = 1 /\ calls[1].written # {}
       /\ built /\ EndpointPlaces # {} /\ BuildWrites(doc) # {}
    \/ \E i \in 1..Len(calls) :
          /\ \E e \in Range(calls[i].log) : e.how = "allOf"
          /\ \E e \in Range(calls[i].log) : e.how = "first"
          /\ calls[i].written # {}

----------------------------------------------------------------------------
(* The preview panel's synthesizer, OperationDetails.                      *)
(* synthesizeExampleFromSchema: a second copy of sampleFromSchema with its *)
(* own depth cap and a fallback for objects without properties.            *)

\* the panel's cap: depth > 6
PanelDepth == 6

\* for (const key of schema.required) out[key] = null
RECURSIVE RequiredNulls(_, _, _)
RequiredNulls(required, i, out) ==
    IF i > Len(required) THEN out
    ELSE RequiredNulls(required, i + 1, SetKey(out, required[i].s, Null))

\* part_001 lines 692-695: the required-only fallback
RequiredFallback(s, out) ==
    IF Len(out.kids) = 0 /\ IsArray(Get(s, <<"required">>))
    THEN RequiredNulls(Elems(Get(s, <<"required">>)), 1, out)
    ELSE out

RECURSIVE synthesizeExampleFromSchema(_, _, _)
RECURSIVE SynthProps(_, _, _, _, _)
RECURSIVE SynthAllOf(_, _, _, _, _)

\* part_001 lines 689-691
SynthProps(entries, i, out, depth, now) ==
    IF i > Len(entries) THEN out
    ELSE Const(synthesizeExampleFromSchema(entries[i].x, depth + 1, now), LAMBDA v :
             IF v = Thrown THEN Thrown
             ELSE Const(SetKey(out, entries[i].k, v), LAMBDA more :
                      SynthProps(entries, i + 1, more, depth, now)))

\* part_001 lines 717-720
SynthAllOf(branches, i, acc, depth, now) ==
    IF i > Len(branches) THEN acc
    ELSE Const(synthesizeExampleFromSchema(branches[i], depth + 1, now), LAMBDA v :
             IF v = Thrown THEN Thrown
             ELSE Const(FoldStep(acc, v), LAMBDA more :
                      SynthAllOf(branches, i + 1, more, depth, now)))

synthesizeExampleFromSchema(s, depth, now) ==
    IF ~Truthy(s) \/ depth > PanelDepth THEN Null
    ELSE IF Literal(s) # <<>> THEN Literal(s)[1]
    ELSE CASE TypeOfSchema(s) = S("object") ->
                Const(SynthProps(Entries(IF Truthy(Get(s, <<"properties">>))
                                         THEN Get(s, <<"properties">>) ELSE MkObj(0, <<>>)),
                                 1, MkObj(0, <<>>), depth, now),
                      LAMBDA out : IF out = Thrown THEN Thrown ELSE RequiredFallback(s, out))
           [] TypeOfSchema(s) = S("array") ->
                Const(synthesizeExampleFromSchema(IF Truthy(Get(s, <<"items">>))
                                                  THEN Get(s, <<"items">>) ELSE MkObj(0, <<>>),
                                                  depth + 1, now),
                      LAMBDA v : IF v = Thrown THEN Thrown ELSE MkArr(0, <<v>>))
           [] TypeOfSchema(s) \in {S("integer"), S("number")} -> Num("0")
           [] TypeOfSchema(s) = S("boolean") -> False
           [] TypeOfSchema(s) = S("string") -> SampleString(s, now)
           [] OTHER ->
                IF HasLength(Get(s, <<"anyOf">>))
                THEN synthesizeExampleFromSchema(First(Get(s, <<"anyOf">>)), depth + 1, now)
                ELSE IF HasLength(Get(s, <<"oneOf">>))
                THEN synthesizeExampleFromSchema(First(Get(s, <<"oneOf">>)), depth + 1, now)
                ELSE IF HasLength(Get(s, <<"allOf">>))
                THEN IF IsArray(Get(s, <<"allOf">>))
                     THEN SynthAllOf(Elems(Get(s, <<"allOf">>)), 1, MkObj(0, <<>>), depth, now)
                     ELSE Thrown
                ELSE Null

\* objects that list required keys, with and without properties
RequiredSchemas ==
    { O(<<P("type", S("object")), P("required", A(<<S("a")>>))>>),
      O(<<P("type", S("object")), P("required", A(<<S("b"), S("a")>>)),
          P("properties", O(<<>>))>>),
      O(<<P("type", S("object")), P("required", A(<<S("a")>>)), P("properties", PropsAB)>>),
      O(<<P("type", S("object")), P("required", A(<<>>))>>),
      O(<<P("type", S("array")),
          P("items", O(<<P("type", S("object")), P("required", A(<<S("a")>>))>>))>>) }

PanelSchemas == Schemas \cup {Number(x, 1).v : x \in RequiredSchemas}

InitPanel ==
    /\ schema \in PanelSchemas
    /\ samples = <<>>
    /\ content = Undef /\ picked = <<>>
    /\ doc = Null /\ cache = EmptyMap /\ refCache = EmptyMap /\ resolvingStack = {}
    /\ nextId = 1 /\ calls = <<>> /\ tree = NoTree /\ built = FALSE
    /\ ma = Undef /\ mb = Undef /\ mr = Undef /\ mdone = FALSE
    /\ InitExtra

\* synthesizeExampleFromSchema(schema) when the clock reads `now`
Synthesize(now) ==
    /\ Len(panel) < MaxCalls
    /\ panel' = Append(panel, [now |-> now,
                               v |-> synthesizeExampleFromSchema(schema, 0, now)])
    /\ UNCHANGED <<doc, cache, refCache, resolvingStack, nextId, calls, tree, built,
                   ma, mb, mr, mdone, others, raw, parsed, export>>

NextPanel == \E now \in Times : Sample(now) \/ Synthesize(now)

SpecPanel == InitPanel /\ [][NextPanel]_vars

(* C30: the preview panel and the converter agree: for every schema, and   *)
(* at the same reading of the clock, synthesizeExampleFromSchema and       *)
(* sampleFromSchema return the same value.                                 *)
C30_PanelAgreesWithConverter ==
    \A i \in 1..Len(samples), j \in 1..Len(panel) :
        samples[i].now = panel[j].now => samples[i].v = panel[j].v

----------------------------------------------------------------------------
(* parseOpenAPI.  A text is described by what the code looks at: the first *)
(* character after trimming, and what JSON.parse and jsyaml.load make of   *)
(* it (a root value, or an exception).  Strings and numbers that the       *)
(* validation reads are sequences of one-character tokens.                 *)

Chars(toks) == Prim("str", toks)
Digits(toks) == Prim("num", toks)

\* what JSON.parse and jsyaml.load throw on malformed text
SyntaxError == Prim("throw", <<"Unexpected token">>)
YAMLException == Prim("throw", <<"bad indentation">>)

\* String(v)
RECURSIVE StringOf(_)
RECURSIVE Join(_, _)
Join(elems, i) ==
    IF i > Len(elems) THEN <<>>
    ELSE (IF i > 1 THEN <<",">> ELSE <<>>)
         \o (IF IsNullish(elems[i]) THEN <<>> ELSE StringOf(elems[i]))
         \o Join(elems, i + 1)
StringOf(v) ==
    IF v.t \in {"str", "num", "bool"} THEN v.s
    ELSE IF v.t = "null" THEN <<"n", "u", "l", "l">>
    ELSE IF v.t = "undef" THEN <<"undefined">>
    ELSE IF IsArray(v) THEN Join(Elems(v), 1)
    ELSE <<"[object Object]">>

\* s.startsWith(prefix)
startsWith(toks, prefix) ==
    Len(toks) >= Len(prefix) /\ SubSeq(toks, 1, Len(prefix)) = prefix

\* doc?.key
OptGet(v, k) == IF IsNullish(v) THEN Undef ELSE Get(v, k)

\* the outcomes of a call: a returned value or a thrown error
Returned(v) == [kind |-> "return", value |-> v, name |-> "", message |-> <<>>]
Threw(name, message) == [kind |-> "throw", value |-> Undef, name |-> name, message |-> message]

\* lines 58-63: JSON.parse when the trimmed text starts with "{", else jsyaml.load
Load(text) == IF text.lead = "{" THEN text.json ELSE text.yaml

\* lines 55-70
parseOpenAPI(text) ==
    IF Load(text).t = "throw"
    THEN Threw("Error", <<"Failed to parse: ">> \o Load(text).s)
    ELSE IF \/ ~Truthy(OptGet(Load(text), <<"openapi">>))
            \/ ~startsWith(StringOf(OptGet(Load(text), <<"openapi">>)), <<"3", ".">>)
    THEN Threw("Error", <<"OpenAPI", " ", "3.x", " ", "required">>)
    ELSE IF ~Truthy(Get(Load(text), <<"paths">>))
    THEN Threw("Error", <<"Missing", " ", "\"", "paths", "\"">>)
    ELSE Returned(Load(text))

\* the values of `openapi` and `paths` in the roots; <<>> leaves the key out
Versions ==
    { <<>>, <<Chars(<<"3", ".", "0", ".", "3">>)>>, <<Chars(<<"3", ".", "1">>)>>,
      <<Chars(<<"3", ".">>)>>, <<Chars(<<"3">>)>>, <<Chars(<<"3", "0">>)>>,
      <<Chars(<<"2", ".", "0">>)>>, <<Chars(<<>>)>>, <<Digits(<<"3", ".", "1">>)>>,
      <<Digits(<<"3">>)>>, <<Digits(<<"0">>)>>, <<Null>>, <<True>>,
      <<A(<<Chars(<<"3", ".", "0">>)>>)>> }
PathsValues ==
    { <<>>, <<O(<<>>)>>, <<O(<<[k |-> PathA, x |-> O(<<>>)]>>)>>, <<Null>>,
      <<Chars(<<>>)>>, <<Digits(<<"0">>)>>, <<A(<<>>)>>, <<False>> }

Root(version, paths) ==
    O((IF version = <<>> THEN <<>> ELSE <<P("openapi", version[1])>>)
      \o <<P("info", O(<<>>))>>
      \o (IF paths = <<>> THEN <<>> ELSE <<P("paths", paths[1])>>))

ObjectRoots == {Root(v, p) : v \in Versions, p \in PathsValues}
ScalarRoots == {Undef, Null, Chars(<<"3", ".", "0">>), Digits(<<"3">>)}

\* JSON objects (also YAML), texts in braces that only YAML accepts, YAML
\* documents, and texts that neither parser accepts
Texts ==
    {[lead |-> "{", json |-> r, yaml |-> r] : r \in ObjectRoots}
    \cup {[lead |-> "{", json |-> SyntaxError, yaml |-> y] :
             y \in {YAMLException, Root(<<Chars(<<"3", ".", "0">>)>>, <<O(<<>>)>>)}}
    \cup {[lead |-> "[", json |-> r, yaml |-> r] : r \in {A(<<>>), A(<<Chars(<<"3", ".">>)>>)}}
    \cup {[lead |-> "o", json |-> SyntaxError, yaml |-> y] :
             y \in ObjectRoots \cup ScalarRoots \cup {YAMLException}}

InitParse ==
    /\ raw \in Texts
    /\ parsed = <<>>
    /\ panel = <<>>
    /\ InitNoExport
    /\ schema = Undef /\ samples = <<>>
    /\ content = Undef /\ picked = <<>>
    /\ doc = Null /\ cache = EmptyMap /\ refCache = EmptyMap /\ resolvingStack = {}
    /\ nextId = 1 /\ calls = <<>> /\ tree = NoTree /\ built = FALSE
    /\ ma = Undef /\ mb = Undef /\ mr = Undef /\ mdone = FALSE

\* parseOpenAPI(raw)
Parse ==
    /\ parsed = <<>>
    /\ parsed' = <<parseOpenAPI(raw)>>
    /\ doc' = IF parseOpenAPI(raw).kind = "return" THEN parseOpenAPI(raw).value ELSE doc
    /\ UNCHANGED <<cache, refCache, resolvingStack, nextId, calls, tree, built,
                   ma, mb, mr, mdone, others, panel, raw, export>>

NextParse == Parse

SpecParse == InitParse /\ [][NextParse]_vars

\* the text is malformed for the parser the code picks
Malformed == Load(raw).t = "throw"

\* the root has an `openapi` value that reads as a string starting with "3."
HasVersion3 ==
    /\ ~IsNullish(Load(raw))
    /\ Truthy(Get(Load(raw), <<"openapi">>))
    /\ startsWith(StringOf(Get(Load(raw), <<"openapi">>)), <<"3", ".">>)

\* the root has a `paths` entry
HasPaths == ~IsNullish(Load(raw)) /\ Get(Load(raw), <<"paths">>) # Undef

\* what parseOpenAPI throws for a text that neither parser accepts
ParseError == parseOpenAPI([lead |-> "o", json |-> SyntaxError, yaml |-> YAMLException])

\* the field whose validation fails first
MissingField == IF ~HasVersion3 THEN "openapi" ELSE "paths"

\* the error message names the field, in any letter case
Names(message, field) ==
    \E i \in 1..Len(message) : toLowerCase(<<message[i]>>) = <<field>>

(* C21: parseOpenAPI returns the document only when the text parses and    *)
(* the root has an `openapi` value starting with "3." and a `paths` entry; *)
(* otherwise it throws and returns nothing; malformed text is reported as  *)
(* a ParseError and a failed validation as a ValidationError, an error of  *)
(* another kind, that names the missing field.                             *)
C21_ParseOrTypedFailure ==
    parsed # <<>> =>
        /\ parsed[1].kind = "return" =>
              /\ ~Malformed /\ HasVersion3 /\ HasPaths
              /\ parsed[1].value = Load(raw)
        /\ parsed[1].kind = "throw" => parsed[1].value = Undef
        /\ Malformed => parsed[1].kind = "throw" /\ parsed[1].name = ParseError.name
        /\ (parsed[1].kind = "throw" /\ ~Malformed) =>
              /\ parsed[1].name # ParseError.name
              /\ Names(parsed[1].message, MissingField)

----------------------------------------------------------------------------
(* The export driver's names.  Strings are sequences of one-character      *)
(* tokens; the character classes list the characters the endpoints use.    *)

Letters == {"a", "b", "d", "e", "g", "i", "n", "o", "p", "r", "s", "t", "u", "v", "w",
            "A", "B"}
DigitChars == {"1", "2"}
Space == {" "}

\* [a-zA-Z0-9-\s], \w and [\w/-]
NameChars == Letters \cup DigitChars \cup {"-"} \cup Space
WordChars == Letters \cup DigitChars \cup {"_"}
PathChars == WordChars \cup {"/", "-"}

\* s.replace(/[class]+/g, rep): every maximal run of characters of the class
\* becomes rep
RECURSIVE ReplaceRuns(_, _, _, _, _)
ReplaceRuns(s, i, class, rep, acc) ==
    IF i > Len(s) THEN acc
    ELSE IF s[i] \notin class THEN ReplaceRuns(s, i + 1, class, rep, Append(acc, s[i]))
    ELSE IF i > 1 /\ s[i - 1] \in class THEN ReplaceRuns(s, i + 1, class, rep, acc)
    ELSE ReplaceRuns(s, i + 1, class, rep, acc \o rep)

\* s.replace(/[^class]/g, "")
Keep(s, class) == SelectSeq(s, LAMBDA c : c \in class)

\* s.replace(/^[class]+/, "") and s.replace(/[class]+$/, "")
RECURSIVE StripStart(_, _)
StripStart(s, class) ==
    IF s # <<>> /\ s[1] \in class THEN StripStart(Tail(s), class) ELSE s
RECURSIVE StripEnd(_, _)
StripEnd(s, class) ==
    IF s # <<>> /\ s[Len(s)] \in class THEN StripEnd(SubSeq(s, 1, Len(s) - 1), class) ELSE s

\* s.trim()
trim(s) == StripEnd(StripStart(s, Space), Space)

\* s.replace(pat, rep) with a string pattern: the first occurrence only
RECURSIVE ReplaceFirst(_, _, _, _)
ReplaceFirst(s, i, pat, rep) ==
    IF i + Len(pat) - 1 > Len(s) THEN s
    ELSE IF SubSeq(s, i, i + Len(pat) - 1) = pat
         THEN SubSeq(s, 1, i - 1) \o rep \o SubSeq(s, i + Len(pat), Len(s))
         ELSE ReplaceFirst(s, i + 1, pat, rep)

\* lines 571-580
sanitizeName(name) ==
    StripEnd(
      StripStart(
        ReplaceRuns(
          ReplaceRuns(
            Keep(ReplaceRuns(trim(name), 1, {"/"}, <<"-">>, <<>>), NameChars),
            1, Space, <<"-">>, <<>>),
          1, {"-"}, <<"-">>, <<>>),
        {"-"}),
      {"-"})

\* ep.tag || "untagged"
UntaggedChars == <<"u", "n", "t", "a", "g", "g", "e", "d">>
tagFolder(ep) == sanitizeName(IF ep.tag = <<>> THEN UntaggedChars ELSE ep.tag)

\* lines 606 and 707: ep.path.replace(/[^\w/-]+/g, "").replace(/\//g, "_") || "root"
safePath(ep) ==
    LET flat == [i \in 1..Len(Keep(ep.path, PathChars)) |->
                    IF Keep(ep.path, PathChars)[i] = "/" THEN "_"
                    ELSE Keep(ep.path, PathChars)[i]]
    IN IF flat = <<>> THEN <<"r", "o", "o", "t">> ELSE flat

\* lines 607 and 708: `${ep.method}_${safePath}.void`.replace('__', '_')
fileName(ep) ==
    ReplaceFirst(ep.method \o <<"_">> \o safePath(ep) \o <<".", "v", "o", "i", "d">>,
                 1, <<"_", "_">>, <<"_">>)

----------------------------------------------------------------------------
(* The export: OpenAPIImportPanel.handleGenerate, getFilesExists and       *)
(* generateSelected over a file system.  Each handleGenerate invocation is *)
(* an entry of `runs`; an await is a point where another invocation or a   *)
(* click may run.  A call of the file API may reject.                      *)
(*   pc      "check"    awaiting getFilesExists                            *)
(*           "returned" returned after opening the confirmation            *)
(*           "failed"   getFilesExists rejected, handleGenerate with it    *)
(*           "setup"    generateSelected called, lines 630-682 pending     *)
(*           "loop"     in the loop of lines 685-722                       *)
(*           "finally"  generateSelected settled, line 306 pending         *)
(*           "done"     handleGenerate returned                            *)
(*   param   the pickedOverwrite argument; picked: its value after 293-295 *)
(*   existed whether a target file was on disk when getFilesExists ran     *)
(*   root    rootPath; write: willWriteFiles; created: createdTagFolders   *)
(*   i       the loop counter; stage: "busy" while an endpoint is being    *)
(*           processed                                                     *)
(*   trace   begin / end of each endpoint and the onProgress calls         *)
(*   outcomes what became of each endpoint processed so far                *)

MaxRuns == 2

\* `${dir}/${name}`
PathOf(dir, name) == dir \o <<"/">> \o name

\* info.title, activeProject and the path of the spec file when they are set
Title == <<"p", "e", "t", "s">>
ProjectDir == <<"/", "w">>
SpecFile == <<"/", "w", "/", "a">>
activeProject == IF project THEN ProjectDir ELSE <<>>

\* s.substring(0, s.lastIndexOf('/'))
RECURSIVE UpToLastSlash(_)
UpToLastSlash(s) ==
    IF s = <<>> THEN <<>>
    ELSE IF s[Len(s)] = "/" THEN SubSeq(s, 1, Len(s) - 1)
    ELSE UpToLastSlash(SubSeq(s, 1, Len(s) - 1))

\* part_001 lines 280-282: the directory handleGenerate looks into
PanelDir == IF activeSource # <<>> THEN UpToLastSlash(activeSource) ELSE activeProject

\* line 656: the directory generateSelected writes under
SpecFileDir == UpToLastSlash(activeSource)
Requests == <<"r", "e", "q", "u", "e", "s", "t", "s">>

getDirectoryExist(f, dir, name) == PathOf(dir, name) \in f.dirs
getFileExist(f, dir, name) == PathOf(dir, name) \in DOMAIN f.files

\* the name createDirectory gives a directory whose name is taken
Dedup(f, dir, name) ==
    IF PathOf(dir, name) \notin f.dirs THEN name
    ELSE IF PathOf(dir, name \o <<"-", "1">>) \notin f.dirs THEN name \o <<"-", "1">>
    ELSE name \o <<"-", "2">>

\* createDirectory(dir, name): the directory is made under a free name;
\* nothing is made where the parent is missing (the call rejects)
createDirectory(f, dir, name) ==
    IF dir \in f.dirs THEN [f EXCEPT !.dirs = @ \cup {PathOf(dir, Dedup(f, dir, name))}]
    ELSE f

\* files.write(path, md)
write(f, path, md) ==
    [f EXCEPT !.files = [x \in DOMAIN @ \cup {path} |-> IF x = path THEN md ELSE @[x]]]

\* the file generateSelected writes for ep under rootPath
FilePath(rootPath, ep) ==
    PathOf(PathOf(PathOf(rootPath, Requests), tagFolder(ep)), fileName(ep))

\* lines 589-620; fault "root": the call of line 591 rejects, "loop": the
\* calls of lines 604 and 609 reject (and are swallowed at line 614)
getFilesExists(f, basePath, rootFolderName, endpoints, fault) ==
    IF fault = "root" THEN "rejected"
    ELSE IF ~getDirectoryExist(f, basePath, sanitizeName(rootFolderName)) \/ basePath = <<>>
    THEN "false"
    ELSE IF fault = "loop" THEN "false"
    ELSE IF \E k \in 1..Len(endpoints) :
              /\ getDirectoryExist(f, PathOf(PathOf(basePath, sanitizeName(rootFolderName)),
                                             Requests),
                                   tagFolder(endpoints[k]))
              /\ getFileExist(f, PathOf(PathOf(PathOf(basePath, sanitizeName(rootFolderName)),
                                               Requests),
                                        tagFolder(endpoints[k])),
                              fileName(endpoints[k]))
         THEN "true"
    ELSE "false"

NewRun(pickedOverwrite, source) ==
    [pc |-> "check", source |-> source, param |-> pickedOverwrite, picked |-> pickedOverwrite,
     existed |-> FALSE, root |-> <<>>, write |-> FALSE, created |-> {}, i |-> 0,
     stage |-> "idle", rejected |-> FALSE, trace |-> <<>>, outcomes |-> <<>>]

\* part_001 lines 271-284: handleGenerate(pickedOverwrite) up to its first await
handleGenerate(pickedOverwrite, source) ==
    /\ Len(runs) < MaxRuns
    /\ chosen # <<>>
    /\ runs' = Append(runs, NewRun(pickedOverwrite, source))
    /\ UNCHANGED <<chosen, project, activeSource, fs, busy, confirmOpen, progress, isSaved>>

\* part_001 lines 521-529: the Generate button
ClickGenerate == ~busy /\ handleGenerate(0, "generate")

\* part_001 lines 550-565: the buttons of the confirmation
ClickOverwrite == confirmOpen /\ handleGenerate(1, "overwrite")
ClickCreateNewFolder == confirmOpen /\ handleGenerate(2, "new folder")

\* part_001 lines 332-356: a voiden.openapi.process event with autoGenerate
ProcessEvent == handleGenerate(0, "event")

\* part_001 line 540: the confirmation is closed
CloseConfirm ==
    /\ confirmOpen
    /\ confirmOpen' = FALSE
    /\ UNCHANGED <<chosen, project, activeSource, fs, runs, busy, progress, isSaved>>

\* a target file of a selected endpoint is on disk
TargetExists ==
    \E k \in 1..Len(chosen) :
        FilePath(PathOf(SpecFileDir, sanitizeName(Title)), chosen[k]) \in DOMAIN fs.files

\* part_001 lines 284-298: getFilesExists settles
FilesChecked(j, fault) ==
    /\ runs[j].pc = "check"
    /\ LET alreadyExists == getFilesExists(fs, PanelDir, Title, chosen, fault)
       IN IF alreadyExists = "rejected"
          THEN /\ runs' = [runs EXCEPT ![j].pc = "failed", ![j].existed = TargetExists]
               /\ UNCHANGED <<busy, confirmOpen, progress>>
          ELSE IF alreadyExists = "true" /\ runs[j].picked = 0
          THEN /\ confirmOpen' = TRUE
               /\ runs' = [runs EXCEPT ![j].pc = "returned", ![j].existed = TargetExists]
               /\ UNCHANGED <<busy, progress>>
          ELSE /\ confirmOpen' = FALSE
               /\ busy' = TRUE
               /\ progress' = [current |-> 0, total |-> Len(chosen)]
               /\ runs' = [runs EXCEPT ![j].pc = "setup", ![j].existed = TargetExists,
                                       ![j].picked = IF alreadyExists = "false" THEN 1 ELSE @]
    /\ UNCHANGED <<chosen, project, activeSource, fs, isSaved>>

\* lines 666-682, when willWriteFiles: the root folder and `requests`
\* fault "create": both createDirectory calls reject (and are swallowed)
EnsureRoot(f, pickedOverwrite, fault) ==
    IF (pickedOverwrite # 1 \/ ~getDirectoryExist(f, SpecFileDir, sanitizeName(Title)))
       /\ fault # "create"
    THEN [name |-> Dedup(f, SpecFileDir, sanitizeName(Title)),
          f |-> createDirectory(createDirectory(f, SpecFileDir, sanitizeName(Title)),
                                PathOf(SpecFileDir, Dedup(f, SpecFileDir, sanitizeName(Title))),
                                Requests)]
    ELSE [name |-> sanitizeName(Title), f |-> f]

\* lines 630-682: generateSelected up to the loop; fault "root": the call of
\* line 668 rejects, and generateSelected with it
Setup(j, fault) ==
    /\ runs[j].pc = "setup"
    /\ IF ~project
       THEN /\ runs' = [runs EXCEPT ![j].pc = "loop"]
            /\ fs' = fs
       ELSE IF fault = "root"
       THEN /\ runs' = [runs EXCEPT ![j].pc = "finally", ![j].rejected = TRUE,
                                    ![j].write = TRUE]
            /\ fs' = fs
       ELSE /\ runs' = [runs EXCEPT ![j].pc = "loop", ![j].write = TRUE,
                                    ![j].root = PathOf(SpecFileDir,
                                                  EnsureRoot(fs, runs[j].picked, fault).name)]
            /\ fs' = EnsureRoot(fs, runs[j].picked, fault).f
    /\ UNCHANGED <<chosen, project, activeSource, busy, confirmOpen, progress, isSaved>>

\* line 685-687: the loop takes the next endpoint
BeginEndpoint(j) ==
    /\ runs[j].pc = "loop" /\ runs[j].stage = "idle" /\ runs[j].i < Len(chosen)
    /\ runs' = [runs EXCEPT ![j].stage = "busy",
                            ![j].trace = Append(@, <<"begin", runs[j].i + 1>>)]
    /\ UNCHANGED <<chosen, project, activeSource, fs, busy, confirmOpen, progress, isSaved>>

\* lines 694-704: the tag folder is made once per run; fault "folder": the
\* calls reject (and are swallowed)
EnsureTagFolder(f, run, ep, fault) ==
    IF tagFolder(ep) \in run.created \/ fault = "folder"
       \/ getDirectoryExist(f, PathOf(run.root, Requests), tagFolder(ep))
    THEN f
    ELSE createDirectory(f, PathOf(run.root, Requests), tagFolder(ep))

\* what lines 686-717 make of one endpoint, f being the disk after lines
\* 694-704: fault "content": building the content throws, "write":
\* files.write rejects (as it does where the folder is missing), "tab":
\* openVoidenTab rejects
Outcome(f, run, ep, fault) ==
    IF fault = "content" THEN [result |-> "failed", path |-> <<>>]
    ELSE IF run.write /\ run.root # <<>>
    THEN IF fault = "write"
            \/ PathOf(PathOf(run.root, Requests), tagFolder(ep)) \notin f.dirs
         THEN [result |-> "failed", path |-> FilePath(run.root, ep)]
         ELSE [result |-> "written", path |-> FilePath(run.root, ep)]
    ELSE IF fault = "tab" THEN [result |-> "failed", path |-> <<>>]
         ELSE [result |-> "tab", path |-> <<>>]

\* Variant of Caught in which a failure leaves the loop
Caught_Rethrown(pc, result) == IF result = "failed" THEN "finally" ELSE pc

\* lines 716-718: the catch keeps the loop going
Caught(pc, result) == pc

\* Variant of Reported that reports before the endpoint is taken
Reported_Early(trace, k, n) == <<<<"progress", k, n>>>> \o trace \o <<<<"end", k>>>>

\* lines 718-721: the endpoint has been dealt with, then onProgress(i, n)
Reported(trace, k, n) == trace \o <<<<"end", k>>, <<"progress", k, n>>>>

\* lines 687-721: the endpoint is processed and progress is reported
EndEndpoint(j, fault) ==
    /\ runs[j].pc = "loop" /\ runs[j].stage = "busy"
    /\ (fault \in {"write", "folder"}) => (runs[j].write /\ runs[j].root # <<>>)
    /\ (fault = "tab") => ~(runs[j].write /\ runs[j].root # <<>>)
    /\ LET ep == chosen[runs[j].i + 1]
           out == Outcome(EnsureTagFolder(fs, runs[j], ep, fault), runs[j], ep, fault)
           wrote == fault # "content" /\ runs[j].write /\ runs[j].root # <<>>
       IN /\ fs' = IF out.result = "written"
                   THEN write(EnsureTagFolder(fs, runs[j], ep, fault), out.path,
                              [run |-> j, ep |-> runs[j].i + 1])
                   ELSE IF wrote THEN EnsureTagFolder(fs, runs[j], ep, fault)
                   ELSE fs
          /\ runs' = [runs EXCEPT ![j].stage = "idle",
                                  ![j].i = @ + 1,
                                  ![j].created = IF wrote THEN @ \cup {tagFolder(ep)} ELSE @,
                                  ![j].outcomes = Append(@, out),
                                  ![j].trace = Reported(@, runs[j].i + 1, Len(chosen)),
                                  ![j].pc = Caught(@, out.result)]
          /\ progress' = [current |-> runs[j].i + 1, total |-> Len(chosen)]
    /\ UNCHANGED <<chosen, project, activeSource, busy, confirmOpen, isSaved>>

\* line 722-723 and part_001 lines 306-312: generateSelected settles
Finish(j) ==
    /\ \/ runs[j].pc = "loop" /\ runs[j].stage = "idle" /\ runs[j].i = Len(chosen)
       \/ runs[j].pc = "finally"
    /\ runs' = [runs EXCEPT ![j].pc = "done"]
    /\ busy' = FALSE
    /\ isSaved' = TRUE
    /\ UNCHANGED <<chosen, project, activeSource, fs, confirmOpen, progress>>

\* part_001 lines 309-311: setTimeout(() => setIsSaved(false), 3000)
SavedExpires ==
    /\ isSaved
    /\ isSaved' = FALSE
    /\ UNCHANGED <<chosen, project, activeSource, fs, runs, busy, confirmOpen, progress>>

\* The selected endpoints: [method, path, tag]
Get_ == <<"g", "e", "t">>
Post_ == <<"p", "o", "s", "t">>
Endpoint(method, path, tag) == [method |-> method, path |-> path, tag |-> tag]
EpById == Endpoint(Get_, <<"/", "p", "/", "{", "i", "}">>, <<"A", " ", "b">>)
EpLiteral == Endpoint(Get_, <<"/", "p", "/", "i">>, <<"A", "-", "b">>)
EpPost == Endpoint(Post_, <<"/", "p">>, <<>>)
EpOther == Endpoint(Get_, <<"/", "b">>, <<"B">>)

ChosenLists ==
    { <<EpById>>, <<EpPost, EpOther>>, <<EpById, EpLiteral>> }

\* what an earlier export of the endpoints left on disk
RECURSIVE Exported(_, _, _)
Exported(f, endpoints, i) ==
    IF i > Len(endpoints) THEN f
    ELSE Exported(write([f EXCEPT !.dirs = @ \cup
                             {PathOf(PathOf(PathOf(SpecFileDir, sanitizeName(Title)), Requests),
                                     tagFolder(endpoints[i]))}],
                        FilePath(PathOf(SpecFileDir, sanitizeName(Title)), endpoints[i]),
                        [run |-> 0, ep |-> i]),
                  endpoints, i + 1)

\* the root of the disk and the project's directory
EmptyDisk == [dirs |-> {<<>>, ProjectDir}, files |-> <<>>]
RootOnly ==
    [EmptyDisk EXCEPT !.dirs = @ \cup {PathOf(SpecFileDir, sanitizeName(Title)),
                                       PathOf(PathOf(SpecFileDir, sanitizeName(Title)),
                                              Requests)}]

InitExport ==
    /\ chosen \in ChosenLists
    /\ project \in BOOLEAN
    /\ activeSource \in {SpecFile, <<>>}
    /\ fs \in {EmptyDisk, RootOnly, Exported(RootOnly, <<chosen[Len(chosen)]>>, 1)}
    /\ runs = <<>>
    /\ busy = FALSE /\ confirmOpen = FALSE /\ isSaved = FALSE
    /\ progress = [current |-> 0, total |-> 0]
    /\ panel = <<>>
    /\ InitUnparsed
    /\ schema = Undef /\ samples = <<>>
    /\ content = Undef /\ picked = <<>>
    /\ doc = Null /\ cache = EmptyMap /\ refCache = EmptyMap /\ resolvingStack = {}
    /\ nextId = 1 /\ calls = <<>> /\ tree = NoTree /\ built = FALSE
    /\ ma = Undef /\ mb = Undef /\ mr = Undef /\ mdone = FALSE

CheckFaults == {"none", "root", "loop"}
SetupFaults == {"none", "root", "create"}
EndpointFaults == {"none", "content", "folder", "write", "tab"}

NextExport ==
    /\ \/ ClickGenerate
       \/ ClickOverwrite
       \/ ClickCreateNewFolder
       \/ ProcessEvent
       \/ CloseConfirm
       \/ SavedExpires
       \/ \E j \in 1..Len(runs) :
            \/ \E fault \in CheckFaults : FilesChecked(j, fault)
            \/ \E fault \in SetupFaults : Setup(j, fault)
            \/ BeginEndpoint(j)
            \/ \E fault \in EndpointFaults : EndEndpoint(j, fault)
            \/ Finish(j)
    /\ UNCHANGED <<doc, cache, refCache, resolvingStack, nextId, calls, tree, built,
                   ma, mb, mr, mdone, others, panel, raw, parsed>>

SpecExport == InitExport /\ [][NextExport]_vars

\* the invocations of handleGenerate
Runs == 1..Len(runs)

\* the invocation has got into the loop of generateSelected
InLoop(j) == runs[j].pc = "loop" \/ (runs[j].pc = "done" /\ ~runs[j].rejected)

(* C22: in a generateSelected run a failure on one endpoint (building its  *)
(* content, making its folder, writing its file, opening its tab) is       *)
(* caught: it leaves the run in the loop, and a run that got into the loop *)
(* returns only after all n endpoints have been processed.                 *)
C22_FailureIsCaught ==
    \A j \in Runs :
        /\ runs[j].pc = "finally" => runs[j].rejected
        /\ InLoop(j) =>
              /\ Len(runs[j].outcomes) = runs[j].i
              /\ runs[j].pc = "done" => runs[j].i = Len(chosen)
              /\ (runs[j].pc = "loop" /\ runs[j].stage = "idle" /\ runs[j].i < Len(chosen))
                    => ENABLED BeginEndpoint(j)

\* a run returned whose first endpoint failed and whose second was written
C22_Witness ==
    \E j \in Runs :
        /\ runs[j].pc = "done" /\ Len(runs[j].outcomes) = 2
        /\ runs[j].outcomes[1].result = "failed"
        /\ runs[j].outcomes[2].result = "written"

\* begin, end and onProgress of the endpoints 1..k, in the order of the loop
RECURSIVE TraceUpTo(_, _)
TraceUpTo(k, n) ==
    IF k = 0 THEN <<>>
    ELSE TraceUpTo(k - 1, n) \o <<<<"begin", k>>, <<"end", k>>, <<"progress", k, n>>>>

\* the onProgress calls of a trace
ProgressCalls(trace) == SelectSeq(trace, LAMBDA e : e[1] = "progress")

C24_OneRunAtATime ==
    /\ Cardinality({j \in Runs : runs[j].stage = "busy"}) <= 1
    /\ Cardinality({j \in Runs : runs[j].pc \in {"setup", "loop", "finally"}}) <= 1

(* C27: when a target file of a selected endpoint is on disk and           *)
(* handleGenerate is called without a choice (pickedOverwrite 0), it       *)
(* starts no generation run and writes nothing: it returns after opening   *)
(* the confirmation (or fails with the existence check).                   *)
C27_NoOverwriteWithoutChoice ==
    \A j \in Runs :
        (runs[j].param = 0 /\ runs[j].existed) =>
            /\ runs[j].pc \in {"returned", "failed"}
            /\ runs[j].outcomes = <<>>

(* C29: in one generateSelected run that writes files, two distinct        *)
(* selected endpoints are never written to the same file path.             *)
C29_DistinctFilePaths ==
    \A j \in Runs :
        \A k, l \in 1..Len(runs[j].outcomes) :
            (/\ k # l
             /\ runs[j].outcomes[k].result = "written"
             /\ runs[j].outcomes[l].result = "written")
                => runs[j].outcomes[k].path # runs[j].outcomes[l].path

====
